---- MODULE Spec2Model ----
(***************************************************************************)
(* The incident store of the traffic dashboard (the useIncidents hook in   *)
(* its five revisions), the derived views the dashboards compute from it,  *)
(* and the conversion of an analyze response into incidents                *)
(* (YOLOService.processYOLOResults).                                       *)
(*                                                                         *)
(* Conventions.  Time is wall-clock milliseconds (Date.now()).             *)
(* A confidence c of the program is the integer 100*c, so 0.94 is 94 and   *)
(* the interval [0,1] is 0..100.  An optional field is a sequence of       *)
(* length 0 (absent) or 1 (present).  The fields key and origin of a       *)
(* record are not program fields: key is the identity of the JavaScript    *)
(* object (its creation ordinal) and origin tells who created it.          *)
(***************************************************************************)
EXTENDS Integers, Sequences, FiniteSets, TLC

VARIABLES
    variant,            \* which revision of the hook is running
    incidents,          \* useState<Incident[]>
    isLoading,          \* useState(true)
    realTimeDetections, \* useState<boolean>(false), generator revisions
    loadTimer,          \* the setTimeout(..., 1000) of the effect
    interval,           \* the setInterval of the effect
    mounted,            \* the component using the hook is mounted
    now,                \* Date.now()
    insertCalls,        \* addIncident calls applied to the mounted store
    updateCalls,        \* updateIncidentStatus calls made
    ticks,              \* ticks of the interval so far
    lastOp,             \* the operation that produced the current state
    yoloResults,        \* the analyze response given to processYOLOResults
    analysis,           \* the VideoAnalysis it returned
    pc,                 \* position of the analyze call
    severityCall,       \* a call of calculateSeverity: arguments and result
    server,             \* which analysis server script is running
    req,                \* a POST /api/analyze request as the server receives it
    res,                \* the response the server has sent
    service,            \* which revision of YOLOService the client runs
    analyzeResult,      \* how the last analyzeVideo call ended
    videoUpload,        \* the state of the VideoUpload component
    dashboard,          \* the state of AdminDashboard around the upload
    analyzeCalls,       \* analyzeVideo calls awaiting their fetch
    healthChecks,       \* checkServerHealth calls awaiting their answer
    clicks,             \* clicks and inputs of the user so far
    generatorTimer,     \* the setInterval timer of startRealTimeDetections
    liveVideoFeed,      \* one LiveVideoFeed component and its timers
    MOCK_USERS,         \* the user table of AuthContext (module level)
    MOCK_PASSWORDS,     \* the password table of AuthContext (module level)
    authContext,        \* useState of AuthProvider: user, isLoading
    localStorage,       \* the item 'traffic-monitor-user'
    route,              \* the router's location and the element rendered there
    authCalls,          \* login and register calls awaiting their 1500 ms timer
    authResult          \* the AuthResponse of the last call that ended

storeVars == <<variant, incidents, isLoading, realTimeDetections, loadTimer,
               interval, mounted, now, insertCalls, updateCalls, ticks, lastOp>>
serverVars == <<server, req, res>>
clientVars == <<service, analyzeResult, videoUpload, dashboard, analyzeCalls,
                healthChecks, clicks>>
timerVars == <<generatorTimer, liveVideoFeed>>
authVars == <<MOCK_USERS, MOCK_PASSWORDS, authContext, localStorage, route,
              authCalls, authResult>>
sessionVars == <<timerVars, authVars>>
callVars == <<severityCall, serverVars, clientVars, sessionVars>>
yoloVars == <<yoloResults, analysis, pc, callVars>>
vars == <<variant, incidents, isLoading, realTimeDetections, loadTimer,
          interval, mounted, now, insertCalls, updateCalls, ticks, lastOp,
          yoloResults, analysis, pc, severityCall, server, req, res,
          service, analyzeResult, videoUpload, dashboard, analyzeCalls,
          healthChecks, clicks, generatorTimer, liveVideoFeed, MOCK_USERS, MOCK_PASSWORDS,
          authContext, localStorage, route, authCalls, authResult>>

(***************************************************************************)
(* Bounds of the model.                                                    *)
(***************************************************************************)
\* Date.now() when the component mounts (any value above the seed ids).
StartTime == 1000
\* Milliseconds the clock may advance during a run.
MaxTime == 1
\* Calls of addIncident and updateIncidentStatus plus interval ticks per run.
MaxCalls == 3
\* Detections in one analyze response.
MaxDetections == 2

Range(s) == {s[i] : i \in DOMAIN s}

(***************************************************************************)
(* The five revisions of the hook.                                         *)
(***************************************************************************)
Variants == {"plain", "refresh", "generator", "refreshNYC", "generatorClear"}

HasGenerator(v) == v \in {"generator", "generatorClear"}
HasRefresh(v) == v \in {"refresh", "refreshNYC"}

Statuses == {"active", "monitoring", "resolved"}

Minute == 60 * 1000

\* A detection box of a store record; its pixel rectangle is left out.
Box(class, confidence) == [class |-> class, confidence |-> confidence]

\* One entry of MOCK_INCIDENTS.  The module computes the timestamps from
\* Date.now() when it is loaded, which is when the component mounts here.
Seed(id, type, address, severity, description, minutesAgo, status, detectedBy, cctvId, confidence, boxes) ==
    [id |-> id, type |-> type, address |-> address, severity |-> severity,
     description |-> description,
     timestamp |-> StartTime - minutesAgo * Minute,
     status |-> status, detectedBy |-> detectedBy, cctvId |-> cctvId,
     confidence |-> confidence, detectionBoxes |-> boxes,
     key |-> 0, origin |-> "seed"]

WithKeys(s) == [i \in DOMAIN s |-> [s[i] EXCEPT !.key = i]]

MOCK_INCIDENTS(v) ==
    WithKeys(
    CASE v = "plain" ->
        << Seed("1", "accident", "HITEC City, Hyderabad", "high",
                "Multi-vehicle collision detected - blocking two lanes",
                15, "active", "ai", "cam-001", <<94>>, <<Box("car_accident", 94)>>),
           Seed("2", "flooding", "Banjara Hills, Hyderabad", "critical",
                "Street flooding detected - road impassable",
                30, "active", "ai", "cam-002", <<87>>, <<Box("flood", 87)>>),
           Seed("3", "traffic_jam", "Jubilee Hills, Hyderabad", "medium",
                "Heavy traffic congestion detected",
                45, "monitoring", "ai", "cam-003", <<76>>, <<Box("heavy_traffic", 76)>>),
           Seed("4", "road_closure", "Secunderabad, Hyderabad", "high",
                "Road closure due to construction work",
                90, "active", "manual", "cam-004", <<>>, <<>>) >>
      [] v \in {"refresh", "generator"} ->
        << Seed("1", "accident", "HITEC City, Hyderabad", "high",
                "Multi-vehicle collision detected by AI - blocking two lanes",
                15, "active", "ai", "cam-001", <<94>>, <<>>),
           Seed("2", "flooding", "Banjara Hills, Hyderabad", "critical",
                "Street flooding detected - road impassable",
                30, "active", "ai", "cam-002", <<87>>, <<>>),
           Seed("3", "traffic_jam", "Jubilee Hills, Hyderabad", "medium",
                "Heavy traffic congestion detected by AI",
                45, "monitoring", "ai", "cam-003", <<76>>, <<>>),
           Seed("4", "road_closure", "Secunderabad, Hyderabad", "high",
                "Road closure due to construction work",
                60, "active", "manual", "cam-004", <<>>, <<>>) >>
      [] v = "refreshNYC" ->
        << Seed("1", "accident", "Times Square, NYC", "high",
                "Multi-vehicle collision blocking two lanes",
                15, "active", "ai", "cam-001", <<>>, <<>>),
           Seed("2", "flooding", "34th Street, NYC", "critical",
                "Street flooding due to heavy rain",
                30, "active", "ai", "cam-002", <<>>, <<>>),
           Seed("3", "traffic_jam", "Broadway & 42nd St", "medium",
                "Heavy traffic congestion",
                45, "monitoring", "ai", "cam-003", <<>>, <<>>) >>
      [] v = "generatorClear" ->
        << Seed("1", "accident", "HITEC City, Hyderabad", "high",
                "Multi-vehicle collision detected by YOLOv8 - blocking two lanes",
                15, "active", "ai", "cam-001", <<94>>, <<Box("car_accident", 94)>>),
           Seed("2", "flooding", "Banjara Hills, Hyderabad", "critical",
                "Street flooding detected - road impassable",
                30, "active", "ai", "cam-002", <<87>>, <<Box("flood", 87)>>),
           Seed("3", "traffic_jam", "Jubilee Hills, Hyderabad", "medium",
                "Heavy traffic congestion detected by YOLOv8",
                45, "monitoring", "ai", "cam-003", <<76>>, <<Box("heavy_traffic", 76)>>),
           Seed("4", "heavy_rain", "Gachibowli, Hyderabad", "medium",
                "Heavy rainfall detected by YOLOv8",
                20, "active", "ai", "cam-005", <<82>>, <<Box("heavy_rain", 82)>>),
           Seed("5", "road_closure", "Secunderabad, Hyderabad", "high",
                "Road closure due to construction work",
                90, "active", "manual", "cam-004", <<>>, <<>>) >>)

SeedLen(v) == Len(MOCK_INCIDENTS(v))


(***************************************************************************)
(* generateRandomDetection: the catalog of the synthetic generator.        *)
(***************************************************************************)
\* Of the four descriptions of an entry the first stands for all.
detectionTypes(v) ==
    IF v = "generator"
    THEN << [type |-> "accident", severity |-> "critical",
             description |-> "Multi-vehicle collision detected by AI"],
            [type |-> "flooding", severity |-> "high",
             description |-> "Street flooding detected by AI"],
            [type |-> "traffic_jam", severity |-> "medium",
             description |-> "Heavy traffic congestion detected"],
            [type |-> "heavy_rain", severity |-> "medium",
             description |-> "Heavy rainfall detected by AI"] >>
    ELSE << [type |-> "accident", severity |-> "critical",
             description |-> "Multi-vehicle collision detected by YOLOv8"],
            [type |-> "flooding", severity |-> "high",
             description |-> "Street flooding detected by YOLOv8"],
            [type |-> "traffic_jam", severity |-> "medium",
             description |-> "Heavy traffic congestion detected by YOLOv8"],
            [type |-> "heavy_rain", severity |-> "medium",
             description |-> "Heavy rainfall detected by YOLOv8"] >>

\* The first of the eight entries of hyderabadLocations stands for all.
hyderabadLocations == <<"HITEC City, Hyderabad">>

\* 0.75 + Math.random() * 0.2 lies in [0.75, 0.95): its least and greatest
\* values in hundredths.
RandomConfidences == {75, 94}

\* "generator" draws the box confidence anew, "generatorClear" reuses the
\* record's confidence.
generateRandomDetection(v, t, confidence, boxConfidence) ==
    [type |-> detectionTypes(v)[t].type,
     address |-> hyderabadLocations[1],
     severity |-> detectionTypes(v)[t].severity,
     description |-> detectionTypes(v)[t].description,
     status |-> "active",
     detectedBy |-> "ai",
     cctvId |-> "cam-007",
     confidence |-> <<confidence>>,
     detectionBoxes |->
        <<Box(detectionTypes(v)[t].type,
              IF v = "generator" THEN boxConfidence ELSE confidence)>>,
     origin |-> "generator"]

(***************************************************************************)
(* LiveVideoFeed.simulateYOLODetection: the record a camera feed hands to  *)
(* onDetection, the caller-side source of addIncident payloads.            *)
(***************************************************************************)
feedDetectionTypes ==
    << [class |-> "car_accident", type |-> "accident", severity |-> "critical",
        description |-> "Multi-vehicle collision detected"],
       [class |-> "flood", type |-> "flooding", severity |-> "high",
        description |-> "Street flooding detected"],
       [class |-> "heavy_traffic", type |-> "traffic_jam", severity |-> "medium",
        description |-> "Heavy traffic congestion detected"],
       [class |-> "heavy_rain", type |-> "heavy_rain", severity |-> "medium",
        description |-> "Heavy rainfall detected"] >>

\* The camera feeds of LiveDetectionFeed, by feedId.
cctvLocations == [f \in {"cctv-001"} |-> "HITEC City, Hyderabad"]

simulateYOLODetection(feedId, t, confidence) ==
    [type |-> feedDetectionTypes[t].type,
     address |-> cctvLocations[feedId],
     severity |-> feedDetectionTypes[t].severity,
     description |-> feedDetectionTypes[t].description,
     status |-> "active",
     detectedBy |-> "ai",
     cctvId |-> feedId,
     confidence |-> <<confidence>>,
     detectionBoxes |-> <<Box(feedDetectionTypes[t].class, confidence)>>,
     origin |-> "caller"]

FeedIds == DOMAIN cctvLocations

\* The draws of one camera detection: catalog entry and confidence.
FeedDraws ==
    {g \in [t : {1, 3}, c : RandomConfidences] : (g.t = 1) = (g.c = 94)}

\* The draws of one generator tick: catalog entry, confidence, box confidence.
GeneratorDraws ==
    {g \in [t : {1, 3}, c : RandomConfidences, bc : RandomConfidences] :
        (g.t = 1) = (g.c = 94) /\ g.bc # g.c}

CallerPayloads ==
    {simulateYOLODetection(f, g.t, g.c) : f \in FeedIds, g \in FeedDraws}

(***************************************************************************)
(* The store operations, as functions of the previous list (the updater    *)
(* functions handed to setIncidents).                                      *)
(***************************************************************************)
\* { ...incident, id: Date.now().toString(), timestamp: new Date() }
newIncident(incident, idNow, tsNow, key) ==
    [id |-> ToString(idNow), type |-> incident.type, address |-> incident.address,
     severity |-> incident.severity, description |-> incident.description,
     timestamp |-> tsNow, status |-> incident.status,
     detectedBy |-> incident.detectedBy, cctvId |-> incident.cctvId,
     confidence |-> incident.confidence, detectionBoxes |-> incident.detectionBoxes,
     key |-> key, origin |-> incident.origin]

\* A variant of addIncident that appends: prev => [...prev, newIncident].
addIncidentAppends(prev, new) == Append(prev, new)

\* prev => [newIncident, ...prev]
addIncident(prev, new) == <<new>> \o prev

\* A variant of updateIncidentStatus with the comparison inverted
\* (incident.id !== id).
updateIncidentStatusInverted(prev, id, status) ==
    [i \in DOMAIN prev |->
        IF prev[i].id # id THEN [prev[i] EXCEPT !.status = status] ELSE prev[i]]

\* A variant of updateIncidentStatus that enforces a state machine: a resolved
\* record keeps its status.
updateIncidentStatusKeepsResolved(prev, id, status) ==
    [i \in DOMAIN prev |->
        IF prev[i].id = id /\ prev[i].status # "resolved"
        THEN [prev[i] EXCEPT !.status = status] ELSE prev[i]]

\* prev => prev.map(incident => incident.id === id ? { ...incident, status } : incident)
updateIncidentStatus(prev, id, status) ==
    [i \in DOMAIN prev |->
        IF prev[i].id = id THEN [prev[i] EXCEPT !.status = status] ELSE prev[i]]

\* The refresh revisions: updated[randomIndex] = { ...updated[randomIndex],
\* timestamp: new Date() }, when updated[randomIndex] exists.
refreshTimestamp(prev, randomIndex, tsNow) ==
    IF randomIndex \in DOMAIN prev
    THEN [prev EXCEPT ![randomIndex].timestamp = tsNow]
    ELSE prev

\* A variant of filter that collects the accepted elements in reverse order.
RECURSIVE filterReversed(_, _)
filterReversed(list, pred) ==
    IF list = <<>> THEN <<>>
    ELSE filterReversed(Tail(list), pred)
         \o (IF pred[Head(list)] THEN <<Head(list)>> ELSE <<>>)

\* Array.prototype.filter: the elements the predicate accepts, in order.  The
\* predicate is a function from the elements of the list to BOOLEAN.
RECURSIVE filter(_, _)
filter(list, pred) ==
    IF list = <<>> THEN <<>>
    ELSE (IF pred[Head(list)] THEN <<Head(list)>> ELSE <<>>) \o filter(Tail(list), pred)

\* The derived views of AdminDashboard and IncidentStats.
activeIncidents == filter(incidents, [i \in Range(incidents) |-> i.status = "active"])
criticalIncidents == filter(incidents, [i \in Range(incidents) |-> i.severity = "critical"])
aiDetections == filter(incidents, [i \in Range(incidents) |-> i.detectedBy = "ai"])

(***************************************************************************)
(* The hook: state after the first render and its effect.                  *)
(***************************************************************************)
NoOp == [op |-> "mount", id |-> "", key |-> 0]

\* No call of calculateSeverity has been made.
NoSeverityCall == [confidence |-> 0, className |-> "", result |-> "none"]

\* No request has reached the analysis server.
NoRequest == [file |-> "none", location |-> <<>>]
NoResponse == [status |-> 0, body |-> [kind |-> "none"]]

ServerIdle ==
    /\ server = "yolo-server"
    /\ req = NoRequest
    /\ res = NoResponse

\* No analyzeVideo call has ended.  progress is the argument of the
\* setUploadProgress call of the caller's continuation, if it made one.
NoAnalyzeResult ==
    [outcome |-> "none", rejected |-> FALSE, message |-> "", instance |-> 0,
     progress |-> <<>>]

\* VideoUpload is not rendered: it has no state.  progressIntervals counts
\* the progress intervals of the instance that have not been cleared.
NotRendered ==
    [mounted |-> FALSE, instance |-> 0, isUploading |-> FALSE, uploadProgress |-> 0,
     cctvName |-> "", selectedFile |-> <<>>, analysisResult |-> <<>>,
     serverStatus |-> "checking", error |-> <<>>, progressIntervals |-> 0]

\* AdminDashboard after its first render.
FirstRender == [cctvFeeds |-> <<>>, selectedFeed |-> <<>>, activeTab |-> "live"]

ClientIdle ==
    /\ service = "fallback"
    /\ analyzeResult = NoAnalyzeResult
    /\ videoUpload = NotRendered
    /\ dashboard = FirstRender
    /\ analyzeCalls = <<>>
    /\ healthChecks = <<>>
    /\ clicks = 0

\* startRealTimeDetections has not run: there is no generator timer.
NoTimer == [delay |-> 0, due |-> 0, draws |-> 0, gaps |-> <<>>]

\* No LiveVideoFeed is rendered.
NoFeed ==
    [mounted |-> FALSE, isActive |-> FALSE, interval |-> "none", analyses |-> 0,
     clearTimers |-> 0, isAnalyzing |-> FALSE, detections |-> 0,
     detectionCount |-> 0, reports |-> 0]

TimersIdle ==
    /\ generatorTimer = NoTimer
    /\ liveVideoFeed = NoFeed

\* A user of the table; department and createdAt are left out.
User(id, role, identifier, name) ==
    [id |-> id, role |-> role,
     rollNumber |-> IF role = "admin" THEN <<identifier>> ELSE <<>>,
     email |-> IF role = "admin" THEN <<>> ELSE <<identifier>>,
     name |-> name]

\* const MOCK_USERS: User[] = [...] as the module is loaded.
MockUsers ==
    << User("1", "admin", "ADM001", "John Smith"),
       User("2", "user", "user@traffic-monitor.com", "Sarah Johnson"),
       User("3", "admin", "ADM002", "Mike Davis"),
       User("4", "user", "jane.doe@gmail.com", "Jane Doe") >>

\* const MOCK_PASSWORDS: Record<string, string> = {...}: the own properties
\* of the object as the module is loaded.
MockPasswords ==
    [id \in {"ADM001", "ADM002", "user@traffic-monitor.com", "jane.doe@gmail.com"} |->
        CASE id = "ADM001" -> "admin123!"
          [] id = "ADM002" -> "admin456!"
          [] id = "user@traffic-monitor.com" -> "user123!"
          [] id = "jane.doe@gmail.com" -> "password123"]

\* No login or register call has ended.
NoAuthResult ==
    [op |-> "none", success |-> FALSE, error |-> "", user |-> <<>>,
     role |-> "", identifier |-> "", password |-> ""]

\* The application is not running: the tables are as loaded, nothing is
\* rendered.
AuthIdle ==
    /\ MOCK_USERS = MockUsers
    /\ MOCK_PASSWORDS = MockPasswords
    /\ authContext = [user |-> <<>>, isLoading |-> TRUE, effect |-> "pending"]
    /\ localStorage = <<>>
    /\ route = [path |-> "/", element |-> "none"]
    /\ authCalls = <<>>
    /\ authResult = NoAuthResult

SessionIdle ==
    /\ TimersIdle
    /\ AuthIdle

CallsIdle ==
    /\ severityCall = NoSeverityCall
    /\ ServerIdle
    /\ ClientIdle
    /\ SessionIdle

\* The analyze call is not part of the store specification: it stays idle.
YoloIdle ==
    /\ yoloResults = [detections |-> <<>>]
    /\ analysis = [detections |-> <<>>, incidents |-> <<>>, processedFrames |-> 0,
                   totalFrames |-> 0, status |-> "none"]
    /\ pc = "idle"
    /\ CallsIdle

Init ==
    /\ variant \in Variants
    /\ incidents = <<>>
    /\ isLoading = TRUE
    \* startRealTimeDetections() has run in the effect of the generator revisions
    /\ realTimeDetections = HasGenerator(variant)
    /\ loadTimer = "pending"
    /\ interval = IF variant = "plain" THEN "none" ELSE "active"
    /\ mounted = TRUE
    /\ now = StartTime
    /\ insertCalls = 0
    /\ updateCalls = 0
    /\ ticks = 0
    /\ lastOp = NoOp
    /\ YoloIdle

\* A state update of an unmounted component is dropped by React.
setIncidents(next) == IF mounted THEN next ELSE incidents

\* Calls and ticks made so far.
Calls == insertCalls + updateCalls + ticks

\* The wall clock advances.
Tick ==
    /\ now < StartTime + MaxTime
    /\ now' = now + 1
    /\ UNCHANGED <<variant, incidents, isLoading, realTimeDetections, loadTimer,
                   interval, mounted, insertCalls, updateCalls, ticks, lastOp>>
    /\ UNCHANGED yoloVars

\* A variant of the load callback without setIsLoading(false).
LoadTimerFiresStillLoading ==
    /\ loadTimer = "pending"
    /\ loadTimer' = "fired"
    /\ incidents' = setIncidents(MOCK_INCIDENTS(variant))
    /\ lastOp' = [op |-> "load", id |-> "", key |-> 0]
    /\ UNCHANGED <<variant, isLoading, realTimeDetections, interval, mounted, now,
                   insertCalls, updateCalls, ticks>>
    /\ UNCHANGED yoloVars

\* setTimeout(() => { setIncidents(MOCK_INCIDENTS); setIsLoading(false) }, 1000).
\* The timer is never cancelled; it fires once.
LoadTimerFires ==
    /\ loadTimer = "pending"
    /\ loadTimer' = "fired"
    /\ incidents' = setIncidents(MOCK_INCIDENTS(variant))
    /\ isLoading' = IF mounted THEN FALSE ELSE isLoading
    /\ lastOp' = [op |-> "load", id |-> "", key |-> 0]
    /\ UNCHANGED <<variant, realTimeDetections, interval, mounted, now,
                   insertCalls, updateCalls, ticks>>
    /\ UNCHANGED yoloVars

\* addIncident(incident) called by a consumer of the hook (a camera feed's
\* onDetection).  The hook hands addIncident out from the first render on.
AddIncident ==
    /\ mounted
    /\ Calls < MaxCalls
    /\ \E incident \in CallerPayloads :
        LET key == SeedLen(variant) + insertCalls + 1
            new == newIncident(incident, now, now, key)
        IN /\ incidents' = setIncidents(addIncident(incidents, new))
           /\ lastOp' = [op |-> "add", id |-> new.id, key |-> key]
    /\ insertCalls' = insertCalls + 1
    /\ UNCHANGED <<variant, isLoading, realTimeDetections, loadTimer, interval,
                   mounted, now, updateCalls, ticks>>
    /\ UNCHANGED yoloVars

\* updateIncidentStatus(id, status) called from the status select of the
\* admin dashboard, or by any consumer with an id of its own.
AbsentId == "999"

UpdateIncidentStatus ==
    /\ mounted
    /\ Calls < MaxCalls
    /\ \E id \in {r.id : r \in Range(incidents)} \cup {AbsentId}, status \in Statuses :
        /\ incidents' = setIncidents(updateIncidentStatus(incidents, id, status))
        /\ lastOp' = [op |-> "update", id |-> id, key |-> 0]
    /\ updateCalls' = updateCalls + 1
    /\ UNCHANGED <<variant, isLoading, realTimeDetections, loadTimer, interval,
                   mounted, now, insertCalls, ticks>>
    /\ UNCHANGED yoloVars

\* One tick of the generator interval of startRealTimeDetections: with the
\* chance Math.random() > 0.7 (> 0.6 in "generatorClear") it emits a record
\* through addIncident.  The interval is created after the load timer, with a
\* longer delay, so its first tick comes after the load timer has fired.
GeneratorTick ==
    /\ HasGenerator(variant)
    /\ interval = "active"
    /\ loadTimer = "fired"
    /\ Calls < MaxCalls
    /\ \/ /\ lastOp' = [op |-> "tick", id |-> "", key |-> 0]
          /\ ticks' = ticks + 1
          /\ UNCHANGED <<incidents, insertCalls>>
       \/ /\ \E g \in GeneratorDraws :
                LET key == SeedLen(variant) + insertCalls + 1
                    new == newIncident(
                              generateRandomDetection(variant, g.t, g.c, g.bc),
                              now, now, key)
                IN /\ incidents' = setIncidents(addIncident(incidents, new))
                   /\ lastOp' = [op |-> "generate", id |-> new.id, key |-> key]
          \* a tick that reaches the mounted store counts as an insert call
          /\ insertCalls' = IF mounted THEN insertCalls + 1 ELSE insertCalls
          /\ ticks' = IF mounted THEN ticks ELSE ticks + 1
    /\ UNCHANGED <<variant, isLoading, realTimeDetections, loadTimer, interval,
                   mounted, now, updateCalls>>
    /\ UNCHANGED yoloVars

\* One tick of the 10 s interval of the refresh revisions: it stamps a randomly
\* chosen record with the current time.  randomIndex is
\* Math.floor(Math.random() * updated.length), here counted from 1.
RefreshTick ==
    /\ HasRefresh(variant)
    /\ interval = "active"
    /\ loadTimer = "fired"
    /\ Calls < MaxCalls
    /\ ticks' = ticks + 1
    /\ \E randomIndex \in 1..(IF Len(incidents) = 0 THEN 1 ELSE Len(incidents)) :
        /\ incidents' = setIncidents(refreshTimestamp(incidents, randomIndex, now))
        /\ lastOp' = [op |-> "refresh", id |-> "", key |-> randomIndex]
    /\ UNCHANGED <<variant, isLoading, realTimeDetections, loadTimer, interval,
                   mounted, now, insertCalls, updateCalls>>
    /\ UNCHANGED yoloVars

\* The component unmounts and the cleanup of the effect runs: "plain" has no
\* cleanup, the refresh revisions and "generatorClear" clear the interval,
\* "generator" only calls setRealTimeDetections(false), which React drops.
Unmount ==
    /\ mounted
    /\ mounted' = FALSE
    /\ interval' = IF HasRefresh(variant) \/ variant = "generatorClear"
                   THEN "cleared" ELSE interval
    /\ lastOp' = [op |-> "unmount", id |-> "", key |-> 0]
    /\ UNCHANGED <<variant, incidents, isLoading, realTimeDetections, loadTimer,
                   now, insertCalls, updateCalls, ticks>>
    /\ UNCHANGED yoloVars

Next ==
    \/ Tick
    \/ LoadTimerFires
    \/ AddIncident
    \/ UpdateIncidentStatus
    \/ GeneratorTick
    \/ RefreshTick
    \/ Unmount

Spec == Init /\ [][Next]_vars

\* A timer that is due is run by the event loop: the load timer, set for
\* 1000 ms and never cancelled, does fire.
SpecLoad == Init /\ [][Next]_vars /\ WF_vars(LoadTimerFires)

(***************************************************************************)
(* YOLOService: an analyze response is turned into incidents.              *)
(***************************************************************************)
\* The class-mapping table of mapYOLOClassToIncidentType.
classMap ==
    [car_accident |-> "accident",
     collision |-> "accident",
     crashed_car |-> "accident",
     flood |-> "flooding",
     water_on_road |-> "flooding",
     heavy_traffic |-> "traffic_jam",
     traffic_congestion |-> "traffic_jam",
     blocked_road |-> "road_closure",
     construction |-> "road_closure",
     emergency_vehicle |-> "emergency"]

\* classMap is a plain object literal: a lookup of a name it does not own goes
\* on to Object.prototype, where "constructor" finds the Object function.
ObjectPrototype == [constructor |-> "[Function: Object]"]

\* The class names an analyze response may carry: the keys of the table, the
\* classes of the mock server, names in another letter case, names the table
\* lacks.
YoloClasses ==
    {"car_accident", "collision", "flood", "water_on_road", "heavy_traffic",
     "traffic_congestion", "blocked_road", "emergency_vehicle",
     "heavy_rain", "bicycle", "FLOOD", "constructor"}

\* String.prototype.toLowerCase on the class names above.
toLowerCase(str) ==
    CASE str = "FLOOD" -> "flood"
      [] OTHER -> str

\* What stands before or after one of the four words calculateSeverity looks
\* for in the class names of the model.
Affixes ==
    {"", "car_", "heavy_", "traffic_", "flood_", "_accident", "_traffic",
     "_congestion", "ing"}

\* Class names for calculateSeverity: those of a response, and names with
\* one or two of the four words in other places.
SeverityClassNames ==
    YoloClasses \cup {"", "crashed_car", "Car_Accident", "flooding", "congestion",
                      "traffic_accident", "flood_traffic"}

SeverityWords == {"accident", "flood", "traffic", "congestion"}

\* The words a class name holds: str has the form a + word + b.  The search
\* is case-sensitive.
wordsIn ==
    [str \in SeverityClassNames |->
        {word \in SeverityWords : \E a, b \in Affixes : a \o word \o b = str}]

\* String.prototype.includes, on the class names and words of the model.
includes(str, word) == word \in wordsIn[str]

null == "null"

\* classMap[yoloClass.toLowerCase()] || null
mapYOLOClassToIncidentType(yoloClass) ==
    LET k == toLowerCase(yoloClass)
    IN IF k \in DOMAIN classMap THEN classMap[k]
       ELSE IF k \in DOMAIN ObjectPrototype THEN ObjectPrototype[k]
       ELSE null

\* A variant of calculateSeverity whose thresholds are inclusive
\* (confidence >= 0.8, confidence >= 0.7).
calculateSeverityInclusive(confidence, className) ==
    IF includes(className, "accident") \/ includes(className, "flood")
    THEN (IF confidence >= 80 THEN "critical" ELSE "high")
    ELSE IF includes(className, "traffic") \/ includes(className, "congestion")
    THEN (IF confidence >= 70 THEN "medium" ELSE "low")
    ELSE "medium"

calculateSeverity(confidence, className) ==
    IF includes(className, "accident") \/ includes(className, "flood")
    THEN (IF confidence > 80 THEN "critical" ELSE "high")
    ELSE IF includes(className, "traffic") \/ includes(className, "congestion")
    THEN (IF confidence > 70 THEN "medium" ELSE "low")
    ELSE "medium"

\* The incident pushed for the detection at position index (counted from 0).
yoloIncident(detection, index, incidentType, dateNow) ==
    [id |-> "yolo-" \o ToString(dateNow) \o "-" \o ToString(index),
     type |-> incidentType,
     severity |-> calculateSeverity(detection.confidence, detection.class),
     description |-> "AI detected " \o detection.class \o " with "
                     \o ToString(detection.confidence) \o "% confidence",
     timestamp |-> dateNow,
     status |-> "active",
     detectedBy |-> "ai",
     confidence |-> <<detection.confidence>>,
     detectionBoxes |->
        << [x |-> detection.bbox[1], y |-> detection.bbox[2],
            width |-> detection.bbox[3] - detection.bbox[1],
            height |-> detection.bbox[4] - detection.bbox[2],
            class |-> detection.class,
            confidence |-> detection.confidence] >>]

\* A variant of convertDetections whose loop stops one detection early.
RECURSIVE convertDetectionsStopsEarly(_, _, _)
convertDetectionsStopsEarly(detections, index, dateNow) ==
    IF index + 1 >= Len(detections) THEN <<>>
    ELSE LET detection == detections[index + 1]
             incidentType == mapYOLOClassToIncidentType(detection.class)
         IN (IF incidentType # null
             THEN <<yoloIncident(detection, index, incidentType, dateNow)>>
             ELSE <<>>)
            \o convertDetectionsStopsEarly(detections, index + 1, dateNow)

\* detections.forEach((detection, index) => { ... incidents.push(...) })
RECURSIVE convertDetections(_, _, _)
convertDetections(detections, index, dateNow) ==
    IF index >= Len(detections) THEN <<>>
    ELSE LET detection == detections[index + 1]
             incidentType == mapYOLOClassToIncidentType(detection.class)
         IN (IF incidentType # null
             THEN <<yoloIncident(detection, index, incidentType, dateNow)>>
             ELSE <<>>)
            \o convertDetections(detections, index + 1, dateNow)

\* yoloResults.detections || []
detectionsOf(results) ==
    IF "detections" \in DOMAIN results THEN results.detections ELSE <<>>

processYOLOResults(results, dateNow) ==
    [detections |-> detectionsOf(results),
     incidents |-> convertDetections(detectionsOf(results), 0, dateNow),
     processedFrames |-> 100,
     totalFrames |-> 100,
     status |-> "completed"]

\* The confidences a response may carry, in hundredths: the thresholds of
\* calculateSeverity and their successors, 0.9, and a value no check of the
\* client keeps out.
ResponseConfidences == {70, 71, 80, 81, 90, 150}

ResponseDetections ==
    {[class |-> c, confidence |-> p, bbox |-> <<0, 0, 10, 10>>] :
        c \in YoloClasses, p \in ResponseConfidences}

RECURSIVE SeqsUpTo(_, _)
SeqsUpTo(S, n) ==
    IF n = 0 THEN {<<>>}
    ELSE LET shorter == SeqsUpTo(S, n - 1)
         IN shorter \cup {Append(q, x) : q \in {r \in shorter : Len(r) = n - 1}, x \in S}

NoAnalysis ==
    [detections |-> <<>>, incidents |-> <<>>, processedFrames |-> 0,
     totalFrames |-> 0, status |-> "none"]

\* The store as the analyze call finds it; the call does not touch it.
StoreAtRest ==
    /\ variant = "generatorClear"
    /\ incidents = MOCK_INCIDENTS(variant)
    /\ isLoading = FALSE
    /\ realTimeDetections = TRUE
    /\ loadTimer = "fired"
    /\ interval = "active"
    /\ mounted = TRUE
    /\ now = StartTime
    /\ insertCalls = 0
    /\ updateCalls = 0
    /\ ticks = 0
    /\ lastOp = [op |-> "load", id |-> "", key |-> 0]

\* fetch has resolved with a response body of at most MaxDetections detections.
InitYolo ==
    /\ StoreAtRest
    /\ yoloResults \in [detections : SeqsUpTo(ResponseDetections, MaxDetections)]
    /\ analysis = NoAnalysis
    /\ pc = "response"
    /\ CallsIdle

\* return this.processYOLOResults(result, location)
ProcessYOLOResults ==
    /\ pc = "response"
    /\ analysis' = processYOLOResults(yoloResults, now)
    /\ pc' = "done"
    /\ UNCHANGED yoloResults
    /\ UNCHANGED callVars
    /\ UNCHANGED storeVars
    /\ UNCHANGED sessionVars

NextYolo == ProcessYOLOResults

SpecYolo == InitYolo /\ [][NextYolo]_vars

(***************************************************************************)
(* calculateSeverity called on its own, with any class name.               *)
(***************************************************************************)
SeverityConfidences == ResponseConfidences \cup {0, 100}

InitSeverity ==
    /\ StoreAtRest
    /\ SessionIdle
    /\ yoloResults = [detections |-> <<>>]
    /\ analysis = NoAnalysis
    /\ pc = "idle"
    /\ severityCall \in [confidence : SeverityConfidences,
                         className : SeverityClassNames,
                         result : {"none"}]
    /\ ServerIdle
    /\ ClientIdle

\* this.calculateSeverity(confidence, className)
CalculateSeverity ==
    /\ severityCall.result = "none"
    /\ severityCall' =
          [severityCall EXCEPT
              !.result = calculateSeverity(severityCall.confidence,
                                           severityCall.className)]
    /\ UNCHANGED <<yoloResults, analysis, pc>>
    /\ UNCHANGED serverVars
    /\ UNCHANGED clientVars
    /\ UNCHANGED storeVars
    /\ UNCHANGED sessionVars

NextSeverity == CalculateSeverity

SpecSeverity == InitSeverity /\ [][NextSeverity]_vars

(***************************************************************************)
(* The analysis servers behind POST /api/analyze: server/yolo-server.js    *)
(* ("yolo-server") and the Express script of the server bundle             *)
(* ("traffic-server").  Latitudes and longitudes are in ten-thousandths of *)
(* a degree.                                                               *)
(***************************************************************************)
Servers == {"yolo-server", "traffic-server"}

\* The location VideoUpload holds when it mounts; the client sends
\* JSON.stringify(location) in the location field.
ClientLocation ==
    [lat |-> 173850, lng |-> 784867, address |-> "Hyderabad, Telangana, India"]

ClientLocationJSON ==
    "{\"lat\":17.385,\"lng\":78.4867,\"address\":\"Hyderabad, Telangana, India\"}"

\* JSON.parse on the texts of the model: it throws a SyntaxError on a text
\* that is not JSON.  A value is a sequence of length one, null the empty one.
JSONparse(text) ==
    CASE text = ClientLocationJSON -> [threw |-> FALSE, value |-> <<ClientLocation>>]
      [] text = "null" -> [threw |-> FALSE, value |-> <<>>]
      [] OTHER -> [threw |-> TRUE, value |-> <<>>]

\* The file part of a request, by its MIME type; "none" when there is none.
RequestFiles == {"none", "video/mp4", "text/plain"}

\* The location field of a request: absent, or its text.
RequestLocations == {<<>>, <<ClientLocationJSON>>, <<"null">>, <<"{lat: 17.4">>}

Requests == [file : RequestFiles, location : RequestLocations]

\* file.mimetype.startsWith('video/')
startsWithVideo(mimetype) == \E rest \in {"mp4", "avi"} : "video/" \o rest = mimetype

\* path.extname(file.originalname) for the files of the model.
extname(mimetype) == IF mimetype = "video/mp4" THEN ".mp4" ELSE ".txt"

\* The name the disk storage gives the file (its random part is left out).
filename(mimetype, dateNow) == "video-" \o ToString(dateNow) \o extname(mimetype)

\* upload.single('video') of yolo-server.js: req.file, or the error the file
\* filter passes on for a file that is not a video.
yoloServerUpload(request, dateNow) ==
    IF request.file = "none" THEN [error |-> FALSE, file |-> <<>>]
    ELSE IF startsWithVideo(request.file)
    THEN [error |-> FALSE, file |-> <<filename(request.file, dateNow)>>]
    ELSE [error |-> TRUE, file |-> <<>>]

\* upload.single('video') of traffic-server, which has no file filter.
trafficServerUpload(request, dateNow) ==
    IF request.file = "none" THEN [error |-> FALSE, file |-> <<>>]
    ELSE [error |-> FALSE, file |-> <<filename(request.file, dateNow)>>]

\* detectionTypes of getMockDetections: each confidence is base + random *
\* width, given by its least and greatest hundredths; of each random bbox the
\* least corner values.
serverDetectionTypes ==
    << [class |-> "car_accident", lo |-> 85, hi |-> 94, bbox |-> <<120, 80, 300, 200>>],
       [class |-> "heavy_traffic", lo |-> 70, hi |-> 84, bbox |-> <<50, 150, 400, 300>>],
       [class |-> "flood", lo |-> 80, hi |-> 94, bbox |-> <<200, 100, 500, 250>>],
       [class |-> "blocked_road", lo |-> 65, hi |-> 79, bbox |-> <<100, 200, 350, 400>>],
       [class |-> "heavy_rain", lo |-> 75, hi |-> 94, bbox |-> <<0, 0, 640, 360>>],
       [class |-> "emergency_vehicle", lo |-> 90, hi |-> 97, bbox |-> <<150, 120, 250, 200>>] >>

\* The loop of getMockDetections: a pick is added unless its class was picked.
RECURSIVE selectDetections(_, _)
selectDetections(picks, selectedDetections) ==
    IF picks = <<>> THEN selectedDetections
    ELSE LET t == serverDetectionTypes[Head(picks).randomIndex]
             detection == [class |-> t.class,
                           confidence |-> IF Head(picks).high THEN t.hi ELSE t.lo,
                           bbox |-> t.bbox]
         IN selectDetections(
                Tail(picks),
                IF \E d \in Range(selectedDetections) : d.class = detection.class
                THEN selectedDetections
                ELSE Append(selectedDetections, detection))

getMockDetections(picks) == selectDetections(picks, <<>>)

\* The random draws of one getMockDetections call: numDetections is 1 or 2.
MockPicks ==
    SeqsUpTo([randomIndex : DOMAIN serverDetectionTypes, high : BOOLEAN], 2) \ {<<>>}

\* A variant of the yolo-server handler without the check of req.file: the
\* read of req.file.filename then throws inside the try block.
yoloServerAnalyzeNoFileCheck(request, picks, dateNow) ==
    LET up == yoloServerUpload(request, dateNow)
    IN IF up.error
       THEN [status |-> 500, body |-> [kind |-> "html", error |-> "Only video files are allowed"]]
       ELSE IF request.location = <<>> \/ JSONparse(request.location[1]).threw
                 \/ up.file = <<>>
       THEN [status |-> 500, body |-> [kind |-> "json", error |-> "Failed to analyze video"]]
       ELSE [status |-> 200,
             body |-> [kind |-> "json",
                       videoId |-> ToString(dateNow),
                       filename |-> up.file[1],
                       location |-> JSONparse(request.location[1]).value,
                       detections |-> getMockDetections(picks),
                       processedFrames |-> 100,
                       totalFrames |-> 100,
                       status |-> "completed"]]

\* app.post('/api/analyze', upload.single('video'), ...) of yolo-server.js.
\* An error of the upload goes to the default error handler of Express (500);
\* JSON.parse runs inside the try block, whose catch answers 500.
yoloServerAnalyze(request, picks, dateNow) ==
    LET up == yoloServerUpload(request, dateNow)
    IN IF up.error
       THEN [status |-> 500, body |-> [kind |-> "html", error |-> "Only video files are allowed"]]
       ELSE IF up.file = <<>>
       THEN [status |-> 400, body |-> [kind |-> "json", error |-> "No video file provided"]]
       ELSE IF request.location = <<>> \/ JSONparse(request.location[1]).threw
       THEN [status |-> 500, body |-> [kind |-> "json", error |-> "Failed to analyze video"]]
       ELSE [status |-> 200,
             body |-> [kind |-> "json",
                       videoId |-> ToString(dateNow),
                       filename |-> up.file[1],
                       location |-> JSONparse(request.location[1]).value,
                       detections |-> getMockDetections(picks),
                       processedFrames |-> 100,
                       totalFrames |-> 100,
                       status |-> "completed"]]

\* incidentTypes of traffic-server.
incidentTypes ==
    << [type |-> "accident", severity |-> "high", description |-> "Vehicle collision detected"],
       [type |-> "traffic_jam", severity |-> "medium", description |-> "Heavy traffic congestion"],
       [type |-> "flooding", severity |-> "high", description |-> "Water on roadway detected"],
       [type |-> "road_closure", severity |-> "medium", description |-> "Road obstruction detected"],
       [type |-> "emergency", severity |-> "high", description |-> "Emergency vehicle detected"] >>

\* The first and the last of the eight fallback locations of traffic-server.
serverLocations ==
    << [lat |-> 174485, lng |-> 783908, area |-> "HITEC City"],
       [lat |-> 174569, lng |-> 783677, area |-> "Kondapur"] >>

\* The draws of one incident of generateMockAnalysis: its type, the fallback
\* location, and the confidence (Math.random() * 0.3 + 0.7).toFixed(2), a
\* string, by its least and greatest values.
IncidentDraws ==
    [type : DOMAIN incidentTypes, place : DOMAIN serverLocations,
     confidence : {"0.70", "1.00"}]

\* numIncidents is 1, 2 or 3.
AnalysisDraws == SeqsUpTo(IncidentDraws, 3) \ {<<>>}

\* generateMockAnalysis(filename, location); the random offsets of lat and lng
\* and the bounding box are left out.  An object without a field area gives
\* area undefined, here the empty sequence.
generateMockAnalysis(name, location, draws, dateNow) ==
    LET incident(i) ==
            LET locationData == IF location # <<>> THEN location[1]
                                ELSE serverLocations[draws[i].place]
            IN [id |-> "incident_" \o ToString(dateNow) \o "_" \o ToString(i - 1),
                type |-> incidentTypes[draws[i].type].type,
                severity |-> incidentTypes[draws[i].type].severity,
                description |-> incidentTypes[draws[i].type].description,
                confidence |-> draws[i].confidence,
                timestamp |-> dateNow,
                location |-> [lat |-> locationData.lat,
                              lng |-> locationData.lng,
                              area |-> IF "area" \in DOMAIN locationData
                                       THEN <<locationData.area>> ELSE <<>>]]
        pushed == [i \in DOMAIN draws |-> incident(i)]
    IN [kind |-> "json",
        status |-> "success",
        video_file |-> name,
        analysis_complete |-> TRUE,
        incidents_detected |-> Len(pushed),
        incidents |-> pushed]

\* app.post('/api/analyze', upload.single('video'), ...) of traffic-server: a
\* location text that does not parse leaves location null.
trafficServerAnalyze(request, draws, dateNow) ==
    LET up == trafficServerUpload(request, dateNow)
        parsed == IF request.location # <<>> /\ request.location[1] # ""
                  THEN JSONparse(request.location[1])
                  ELSE [threw |-> FALSE, value |-> <<>>]
        location == IF parsed.threw THEN <<>> ELSE parsed.value
    IN IF up.file = <<>>
       THEN [status |-> 400,
             body |-> [kind |-> "json", status |-> "error",
                       message |-> "No video file uploaded"]]
       ELSE [status |-> 200,
             body |-> generateMockAnalysis(up.file[1], location, draws, dateNow)]

\* A request has reached one of the servers.
InitServer ==
    /\ StoreAtRest
    /\ SessionIdle
    /\ yoloResults = [detections |-> <<>>]
    /\ analysis = NoAnalysis
    /\ pc = "idle"
    /\ severityCall = NoSeverityCall
    /\ ClientIdle
    /\ server \in Servers
    /\ req \in Requests
    /\ res = NoResponse

YoloServerAnalyze ==
    /\ server = "yolo-server"
    /\ res = NoResponse
    /\ \E picks \in MockPicks : res' = yoloServerAnalyze(req, picks, now)
    /\ UNCHANGED <<server, req, severityCall, yoloResults, analysis, pc>>
    /\ UNCHANGED clientVars
    /\ UNCHANGED storeVars
    /\ UNCHANGED sessionVars

TrafficServerAnalyze ==
    /\ server = "traffic-server"
    /\ res = NoResponse
    /\ \E draws \in AnalysisDraws : res' = trafficServerAnalyze(req, draws, now)
    /\ UNCHANGED <<server, req, severityCall, yoloResults, analysis, pc>>
    /\ UNCHANGED clientVars
    /\ UNCHANGED storeVars
    /\ UNCHANGED sessionVars

NextServer ==
    \/ YoloServerAnalyze
    \/ TrafficServerAnalyze

SpecServer == InitServer /\ [][NextServer]_vars

(***************************************************************************)
(* YOLOService.analyzeVideo in its two revisions: "fallback"               *)
(* (services/yoloService.ts) answers a failed call with a mock analysis,   *)
(* "strict" throws.                                                        *)
(***************************************************************************)
Services == {"fallback", "strict"}

\* The request the client sends: the selected video and its location.
ClientRequest == [file |-> "video/mp4", location |-> <<ClientLocationJSON>>]

\* How the fetch of analyzeVideo ends: it rejects (no server), or a response
\* arrives: the answer of one of the servers to the client's request, or a
\* 500 (a file above the size limit of the upload).
Rejected == [kind |-> "rejected", status |-> 0, body |-> [kind |-> "none"]]

ServerError ==
    [kind |-> "response", status |-> 500,
     body |-> [kind |-> "html", error |-> "File too large"]]

ResponseOf(r) == [kind |-> "response", status |-> r.status, body |-> r.body]

FetchOutcomes ==
    {Rejected, ServerError}
    \cup {ResponseOf(yoloServerAnalyze(ClientRequest, picks, StartTime)) : picks \in MockPicks}
    \cup {ResponseOf(trafficServerAnalyze(ClientRequest, draws, StartTime)) :
             draws \in {d \in AnalysisDraws : Len(d) = 1}}

\* response.ok
ok(outcome) == outcome.kind = "response" /\ outcome.status \in 200..299

\* A variant of possibleDetections with the classes of the server's table.
possibleDetectionsOfServer ==
    << [class |-> "car_accident", lo |-> 85, hi |-> 94],
       [class |-> "heavy_traffic", lo |-> 70, hi |-> 84],
       [class |-> "flood", lo |-> 80, hi |-> 94],
       [class |-> "heavy_rain", lo |-> 75, hi |-> 84],
       [class |-> "emergency_vehicle", lo |-> 90, hi |-> 94] >>

\* possibleDetections of getMockAnalysis: each confidence is base + random *
\* width, given by its least and greatest hundredths.
possibleDetections ==
    << [class |-> "car_accident", lo |-> 85, hi |-> 94],
       [class |-> "heavy_traffic", lo |-> 70, hi |-> 84],
       [class |-> "flood", lo |-> 80, hi |-> 94],
       [class |-> "blocked_road", lo |-> 75, hi |-> 84],
       [class |-> "emergency_vehicle", lo |-> 90, hi |-> 94] >>

\* The random draws of one getMockAnalysis call: numDetections is 1, 2 or 3;
\* the confidence of a table entry is drawn once per call.
MockDraws ==
    {d \in SeqsUpTo([index : DOMAIN possibleDetections, high : BOOLEAN], 3) \ {<<>>} :
        \A i, j \in DOMAIN d : d[i].index = d[j].index => d[i].high = d[j].high}

\* getMockAnalysis(videoFile, location); of each random bbox the least corner
\* values.
getMockAnalysis(draws, dateNow) ==
    processYOLOResults(
        [videoId |-> ToString(dateNow),
         detections |->
            [i \in DOMAIN draws |->
                [class |-> possibleDetections[draws[i].index].class,
                 confidence |-> IF draws[i].high
                                THEN possibleDetections[draws[i].index].hi
                                ELSE possibleDetections[draws[i].index].lo,
                 bbox |-> <<50, 50, 250, 200>>]],
         processedFrames |-> 100,
         totalFrames |-> 100],
        dateNow)

\* A variant of analyzeVideo whose strict revision, too, answers a failure
\* with a mock analysis.
analyzeVideoSwallows(svc, outcome, draws, dateNow) ==
    IF ok(outcome)
    THEN [outcome |-> "ok", rejected |-> FALSE, message |-> "",
          analysis |-> <<processYOLOResults(outcome.body, dateNow)>>]
    ELSE [outcome |-> outcome.kind, rejected |-> FALSE, message |-> "",
          analysis |-> <<processYOLOResults([detections |-> <<>>], dateNow)>>]

\* analyzeVideo(videoFile, location) once its fetch has ended: the analysis it
\* resolves with, or the message of the error it rejects with.
analyzeVideo(svc, outcome, draws, dateNow) ==
    IF ok(outcome)
    THEN [outcome |-> "ok", rejected |-> FALSE, message |-> "",
          analysis |-> <<processYOLOResults(outcome.body, dateNow)>>]
    ELSE IF svc = "strict"
    THEN [outcome |-> outcome.kind, rejected |-> TRUE,
          message |-> "Real YOLO analysis failed: "
                      \o (IF outcome.kind = "rejected" THEN "Failed to fetch"
                          ELSE "Server responded with status: " \o ToString(outcome.status))
                      \o ". Make sure the Python Flask server is running on port 5000.",
          analysis |-> <<>>]
    ELSE [outcome |-> outcome.kind, rejected |-> FALSE, message |-> "",
          analysis |-> <<getMockAnalysis(draws, dateNow)>>]

\* The draws a call makes: getMockAnalysis runs only in the fallback revision
\* and only after a failure.
DrawsOf(svc, outcome) ==
    IF svc = "fallback" /\ ~ok(outcome) THEN MockDraws
    ELSE {CHOOSE d \in MockDraws : TRUE}

\* analyzeVideo has been called, outside of any component, and awaits its
\* fetch.
InitAnalyze ==
    /\ StoreAtRest
    /\ SessionIdle
    /\ yoloResults = [detections |-> <<>>]
    /\ analysis = NoAnalysis
    /\ pc = "idle"
    /\ severityCall = NoSeverityCall
    /\ ServerIdle
    /\ service \in Services
    /\ analyzeResult = NoAnalyzeResult
    /\ videoUpload = NotRendered
    /\ dashboard = FirstRender
    /\ analyzeCalls = <<[instance |-> 0, cctvName |-> ""]>>
    /\ healthChecks = <<>>
    /\ clicks = 0

\* The fetch ends and analyzeVideo settles.
AnalyzeVideoSettles ==
    /\ analyzeCalls # <<>>
    /\ \E outcome \in FetchOutcomes :
        \E draws \in DrawsOf(service, outcome) :
          LET r == analyzeVideo(service, outcome, draws, now)
          IN /\ analyzeResult' = [outcome |-> r.outcome, rejected |-> r.rejected,
                                  message |-> r.message,
                                  instance |-> Head(analyzeCalls).instance,
                                  progress |-> <<>>]
             /\ analysis' = IF r.analysis # <<>> THEN r.analysis[1] ELSE analysis
             /\ yoloResults' = IF ok(outcome) THEN outcome.body ELSE yoloResults
    /\ analyzeCalls' = Tail(analyzeCalls)
    /\ UNCHANGED <<pc, severityCall, service, videoUpload, dashboard, healthChecks,
                   clicks>>
    /\ UNCHANGED serverVars
    /\ UNCHANGED storeVars
    /\ UNCHANGED sessionVars

NextAnalyze == AnalyzeVideoSettles

SpecAnalyze == InitAnalyze /\ [][NextAnalyze]_vars

(***************************************************************************)
(* The upload tab of AdminDashboard: VideoUpload, rendered while activeTab *)
(* is 'upload', and handleAnalysisComplete.  A VideoUpload that is not     *)
(* rendered has no state; each mount makes a new instance.  The state      *)
(* updates of one event or continuation are applied together.              *)
(***************************************************************************)
\* User events per run.
MaxClicks == 9

Tabs == {"upload", "monitor", "map", "live"}

RemoveAt(q, i) == SubSeq(q, 1, i - 1) \o SubSeq(q, i + 1, Len(q))

\* The unmounted component; the number of the last instance is kept.
unmounted(vu) == [NotRendered EXCEPT !.instance = vu.instance]

\* A variant of the button's disabled expression without isUploading.
uploadDisabledWhileIdle(vu) ==
    vu.selectedFile = <<>> \/ vu.cctvName = "" \/ vu.serverStatus # "online"

\* disabled={!selectedFile || !cctvName || isUploading || serverStatus !== 'online'}
uploadDisabled(vu) ==
    vu.selectedFile = <<>> \/ vu.cctvName = "" \/ vu.isUploading
        \/ vu.serverStatus # "online"

\* yoloService.checkServerHealth(): whether GET /api/health answered.
checkServerHealth(answered) == answered

\* const cctvFeed = { id: `cctv-${Date.now()}`, ... }
cctvFeed(cctvName, result, dateNow) ==
    [id |-> "cctv-" \o ToString(dateNow),
     name |-> cctvName,
     location |-> ClientLocation,
     status |-> "online",
     isLive |-> FALSE,
     lastDetection |->
        IF Len(result.incidents) > 0
        THEN <<[type |-> result.incidents[1].type,
                confidence |-> result.incidents[1].confidence[1],
                timestamp |-> dateNow,
                detectionBoxes |-> result.incidents[1].detectionBoxes]>>
        ELSE <<>>]

\* handleAnalysisComplete(result) of AdminDashboard.
handleAnalysisComplete(d, feed) ==
    [cctvFeeds |-> Append(d.cctvFeeds, feed),
     selectedFeed |-> <<feed>>,
     activeTab |-> "monitor"]

\* The answers of the fetch and the draws of getMockAnalysis in the upload
\* specification: a few of FetchOutcomes and of MockDraws.
UploadPicks ==
    { <<[randomIndex |-> 1, high |-> TRUE]>>,
      <<[randomIndex |-> 5, high |-> FALSE]>>,
      <<[randomIndex |-> 3, high |-> FALSE], [randomIndex |-> 2, high |-> TRUE]>> }

UploadOutcomes ==
    {Rejected, ServerError}
    \cup {ResponseOf(yoloServerAnalyze(ClientRequest, picks, StartTime)) : picks \in UploadPicks}

UploadDraws(svc, outcome) ==
    IF svc = "fallback" /\ ~ok(outcome)
    THEN { <<[index |-> 1, high |-> TRUE]>>,
           <<[index |-> 4, high |-> FALSE], [index |-> 5, high |-> TRUE]>> }
    ELSE {CHOOSE d \in MockDraws : TRUE}

\* AdminDashboard has rendered; the store has loaded.
InitUpload ==
    /\ StoreAtRest
    /\ SessionIdle
    /\ yoloResults = [detections |-> <<>>]
    /\ analysis = NoAnalysis
    /\ pc = "idle"
    /\ severityCall = NoSeverityCall
    /\ ServerIdle
    /\ service \in Services
    /\ analyzeResult = NoAnalyzeResult
    /\ videoUpload = NotRendered
    /\ dashboard = FirstRender
    /\ analyzeCalls = <<>>
    /\ healthChecks = <<>>
    /\ clicks = 0

\* onClick={() => setActiveTab(tab)}.  Entering the upload tab mounts a new
\* VideoUpload, whose effect calls checkServerStatus; leaving it unmounts.
SelectTab ==
    /\ clicks < MaxClicks
    /\ clicks' = clicks + 1
    /\ \E tab \in Tabs \ {dashboard.activeTab} :
        /\ dashboard' = [dashboard EXCEPT !.activeTab = tab]
        /\ IF tab = "upload"
           THEN /\ videoUpload' = [NotRendered EXCEPT !.mounted = TRUE,
                                                     !.instance = videoUpload.instance + 1]
                /\ healthChecks' = Append(healthChecks, videoUpload.instance + 1)
           ELSE /\ videoUpload' = unmounted(videoUpload)
                /\ UNCHANGED healthChecks
    /\ UNCHANGED <<service, analyzeResult, analyzeCalls>>
    /\ UNCHANGED <<yoloResults, analysis, pc, severityCall>>
    /\ UNCHANGED serverVars
    /\ UNCHANGED storeVars
    /\ UNCHANGED sessionVars

\* handleFileSelect with a video file (any other file changes nothing).
HandleFileSelect ==
    /\ videoUpload.mounted
    /\ clicks < MaxClicks
    /\ clicks' = clicks + 1
    /\ videoUpload' = [videoUpload EXCEPT !.selectedFile = <<"video/mp4">>,
                                          !.analysisResult = <<>>,
                                          !.error = <<>>]
    /\ UNCHANGED <<service, analyzeResult, dashboard, analyzeCalls, healthChecks>>
    /\ UNCHANGED <<yoloResults, analysis, pc, severityCall>>
    /\ UNCHANGED serverVars
    /\ UNCHANGED storeVars
    /\ UNCHANGED sessionVars

\* onChange={(e) => setCctvName(e.target.value)}
SetCctvName ==
    /\ videoUpload.mounted
    /\ clicks < MaxClicks
    /\ clicks' = clicks + 1
    /\ \E name \in {"", "Cam 1"} \ {videoUpload.cctvName} :
          videoUpload' = [videoUpload EXCEPT !.cctvName = name]
    /\ UNCHANGED <<service, analyzeResult, dashboard, analyzeCalls, healthChecks>>
    /\ UNCHANGED <<yoloResults, analysis, pc, severityCall>>
    /\ UNCHANGED serverVars
    /\ UNCHANGED storeVars
    /\ UNCHANGED sessionVars

\* checkServerStatus up to its await, from the Refresh button.
CheckServerStatus ==
    /\ videoUpload.mounted
    /\ clicks < MaxClicks
    /\ clicks' = clicks + 1
    /\ videoUpload' = [videoUpload EXCEPT !.serverStatus = "checking"]
    /\ healthChecks' = Append(healthChecks, videoUpload.instance)
    /\ UNCHANGED <<service, analyzeResult, dashboard, analyzeCalls>>
    /\ UNCHANGED <<yoloResults, analysis, pc, severityCall>>
    /\ UNCHANGED serverVars
    /\ UNCHANGED storeVars
    /\ UNCHANGED sessionVars

\* checkServerStatus after its await: setServerStatus(isHealthy ? 'online' :
\* 'offline'), dropped when the instance has unmounted.
HealthCheckSettles ==
    /\ \E i \in DOMAIN healthChecks, answered \in BOOLEAN :
        /\ healthChecks' = RemoveAt(healthChecks, i)
        /\ videoUpload' =
              IF videoUpload.mounted /\ videoUpload.instance = healthChecks[i]
              THEN [videoUpload EXCEPT !.serverStatus =
                        IF checkServerHealth(answered) THEN "online" ELSE "offline"]
              ELSE videoUpload
    /\ UNCHANGED <<service, analyzeResult, dashboard, analyzeCalls, clicks>>
    /\ UNCHANGED <<yoloResults, analysis, pc, severityCall>>
    /\ UNCHANGED serverVars
    /\ UNCHANGED storeVars
    /\ UNCHANGED sessionVars

\* A variant of the progress updater that stops at 100.
progressUpdaterTo100(prev) == IF prev >= 100 THEN 100 ELSE prev + 10

\* setUploadProgress(prev => { if (prev >= 90) { clearInterval(progressInterval);
\* return 90; } return prev + 10; })
progressUpdater(prev) == IF prev >= 90 THEN 90 ELSE prev + 10

\* handleUploadAndAnalyze up to its await, from the Upload & Analyze button,
\* which takes clicks only while it is not disabled: the progress interval
\* is set.
HandleUploadAndAnalyze ==
    /\ videoUpload.mounted
    /\ ~uploadDisabled(videoUpload)
    /\ videoUpload.selectedFile # <<>> /\ videoUpload.cctvName # ""
    /\ clicks < MaxClicks
    /\ clicks' = clicks + 1
    /\ videoUpload' = [videoUpload EXCEPT !.error = <<>>,
                                          !.isUploading = TRUE,
                                          !.uploadProgress = 0,
                                          !.progressIntervals = @ + 1]
    /\ analyzeCalls' = Append(analyzeCalls,
                              [instance |-> videoUpload.instance,
                               cctvName |-> videoUpload.cctvName])
    /\ UNCHANGED <<service, analyzeResult, dashboard, healthChecks>>
    /\ UNCHANGED <<yoloResults, analysis, pc, severityCall>>
    /\ UNCHANGED serverVars
    /\ UNCHANGED storeVars
    /\ UNCHANGED sessionVars

\* handleUploadAndAnalyze after its await.  With an analysis: progress 100,
\* setAnalysisResult, onAnalysisComplete; the dashboard goes to the monitor
\* tab, which unmounts VideoUpload.  With an error: setError, and the
\* progress interval, which only the path of an analysis clears, goes on.
\* Then setIsUploading(false).  Updates of an unmounted instance are dropped.
UploadSettles ==
    \E i \in DOMAIN analyzeCalls, outcome \in UploadOutcomes :
      \E draws \in UploadDraws(service, outcome) :
        LET call == analyzeCalls[i]
            r == analyzeVideo(service, outcome, draws, now)
            own == videoUpload.mounted /\ videoUpload.instance = call.instance
        IN /\ analyzeCalls' = RemoveAt(analyzeCalls, i)
           /\ analyzeResult' = [outcome |-> r.outcome, rejected |-> r.rejected,
                                message |-> r.message, instance |-> call.instance,
                                progress |-> IF r.rejected THEN <<>> ELSE <<100>>]
           /\ yoloResults' = IF ok(outcome) THEN outcome.body ELSE yoloResults
           /\ IF r.rejected
              THEN /\ videoUpload' =
                        IF own THEN [videoUpload EXCEPT !.error = <<r.message>>,
                                                        !.isUploading = FALSE]
                        ELSE videoUpload
                   /\ UNCHANGED <<analysis, dashboard>>
              ELSE /\ analysis' = r.analysis[1]
                   /\ dashboard' = handleAnalysisComplete(
                                       dashboard,
                                       cctvFeed(call.cctvName, r.analysis[1], now))
                   /\ videoUpload' = unmounted(videoUpload)
           /\ UNCHANGED <<service, healthChecks, clicks, pc, severityCall>>
           /\ UNCHANGED serverVars
           /\ UNCHANGED storeVars
           /\ UNCHANGED sessionVars

\* A progress interval of the mounted instance fires (every 200 ms): the
\* updater runs on the latest progress and clears its interval at 90.  The
\* updates of an unmounted instance are dropped, so its intervals are left
\* out.
ProgressTick ==
    /\ videoUpload.mounted
    /\ videoUpload.progressIntervals > 0
    /\ videoUpload' =
          [videoUpload EXCEPT
              !.uploadProgress = progressUpdater(@),
              !.progressIntervals =
                  IF videoUpload.uploadProgress >= 90 THEN @ - 1 ELSE @]
    /\ UNCHANGED <<service, analyzeResult, dashboard, analyzeCalls, healthChecks,
                   clicks>>
    /\ UNCHANGED <<yoloResults, analysis, pc, severityCall>>
    /\ UNCHANGED serverVars
    /\ UNCHANGED storeVars
    /\ UNCHANGED sessionVars

NextUpload ==
    \/ SelectTab
    \/ ProgressTick
    \/ HandleFileSelect
    \/ SetCctvName
    \/ CheckServerStatus
    \/ HealthCheckSettles
    \/ HandleUploadAndAnalyze
    \/ UploadSettles

SpecUpload == InitUpload /\ [][NextUpload]_vars

(***************************************************************************)
(* AuthContext, LoginForm and the routes of App.tsx.  The tables           *)
(* MOCK_USERS and MOCK_PASSWORDS live at module level: they last until the *)
(* page is loaded again.  login and register are called by the two submit  *)
(* handlers of LoginForm, whose submit button is disabled while isLoading. *)
(***************************************************************************)
\* Submits, reloads and logouts per run.
MaxAuthEvents == 5

Roles == {"admin", "user"}

\* What the identifier input accepts: any text for an admin (type="text"),
\* an e-mail address for a user (type="email").
IdentifierInputs(role) ==
    IF role = "admin"
    THEN {"ADM001", "ADM009", "__proto__", "user@traffic-monitor.com"}
    ELSE {"user@traffic-monitor.com", "new@traffic-monitor.com"}

\* What the password inputs accept (minLength 6).
PasswordInputs == {"admin123!", "user123!"}

Paths == {"/", "/login", "/admin", "/dashboard"}

undefined == "undefined"

\* MOCK_PASSWORDS[identifier]: an own property, or what the prototype chain
\* of a plain object gives.
getProperty(object, key) ==
    IF key \in DOMAIN object THEN object[key]
    ELSE IF key = "__proto__" THEN "[Object: null prototype] {}"
    ELSE IF key \in DOMAIN ObjectPrototype THEN ObjectPrototype[key]
    ELSE undefined

\* MOCK_PASSWORDS[identifier] = password: the key "__proto__" names the
\* prototype accessor, whose setter ignores a string.
setProperty(object, key, value) ==
    IF key = "__proto__" THEN object
    ELSE [k \in DOMAIN object \cup {key} |-> IF k = key THEN value ELSE object[k]]

\* The users of the table with the role and identifier of a login.
loginMatches(users, role, identifier) ==
    IF role = "admin"
    THEN {i \in DOMAIN users :
            users[i].role = "admin" /\ users[i].rollNumber = <<identifier>>}
    ELSE {i \in DOMAIN users :
            users[i].role = "user" /\ users[i].email = <<identifier>>}

\* Array.prototype.find on a set of matching positions: the first one.
first(positions) == CHOOSE i \in positions : \A j \in positions : i <= j

\* A variant of login without the password check.
loginAnyPassword(users, passwords, credentials) ==
    LET found == loginMatches(users, credentials.role, credentials.identifier)
    IN IF found = {}
       THEN [success |-> FALSE, user |-> <<>>,
             error |-> IF credentials.role = "admin"
                       THEN "Invalid roll number or role"
                       ELSE "Invalid email or role"]
       ELSE [success |-> TRUE, user |-> <<users[first(found)]>>, error |-> ""]

\* login(credentials) after its 1500 ms wait: the AuthResponse.
login(users, passwords, credentials) ==
    LET found == loginMatches(users, credentials.role, credentials.identifier)
    IN IF found = {}
       THEN [success |-> FALSE, user |-> <<>>,
             error |-> IF credentials.role = "admin"
                       THEN "Invalid roll number or role"
                       ELSE "Invalid email or role"]
       ELSE IF getProperty(passwords, credentials.identifier) # credentials.password
       THEN [success |-> FALSE, user |-> <<>>, error |-> "Invalid password"]
       ELSE [success |-> TRUE, user |-> <<users[first(found)]>>, error |-> ""]

\* The users of the table that hold the identifier of a registration.
registerMatches(users, identifier) ==
    {i \in DOMAIN users :
        \/ users[i].role = "admin" /\ users[i].rollNumber = <<identifier>>
        \/ users[i].role = "user" /\ users[i].email = <<identifier>>}

\* register(userData) after its 1500 ms wait: the AuthResponse and the two
\* tables.
register(users, passwords, userData, dateNow) ==
    IF registerMatches(users, userData.identifier) # {}
    THEN [success |-> FALSE, user |-> <<>>,
          error |-> IF userData.role = "admin"
                    THEN "Roll number already registered"
                    ELSE "Email already registered",
          users |-> users, passwords |-> passwords]
    ELSE LET newUser == User(ToString(dateNow), userData.role,
                             userData.identifier, userData.name)
         IN [success |-> TRUE, user |-> <<newUser>>, error |-> "",
             users |-> Append(users, newUser),
             passwords |-> IF userData.identifier # ""
                           THEN setProperty(passwords, userData.identifier,
                                            userData.password)
                           ELSE passwords]

\* <Navigate to={user.role === 'admin' ? '/admin' : '/dashboard'} replace />
homeOf(user) == IF user.role = "admin" THEN "/admin" ELSE "/dashboard"

Navigate(to) == [navigate |-> TRUE, to |-> to, element |-> "none"]
Element(name) == [navigate |-> FALSE, to |-> "", element |-> name]

\* A variant of ProtectedRoute without the comparison of roles.
ProtectedRouteAnyRole(ctx, requiredRole, children) ==
    IF ctx.isLoading THEN Element("spinner")
    ELSE IF ctx.user = <<>> THEN Navigate("/login")
    ELSE Element(children)

ProtectedRoute(ctx, requiredRole, children) ==
    IF ctx.isLoading THEN Element("spinner")
    ELSE IF ctx.user = <<>> THEN Navigate("/login")
    ELSE IF ctx.user[1].role # requiredRole THEN Navigate(homeOf(ctx.user[1]))
    ELSE Element(children)

\* The element of the route that matches the path.
AppContent(ctx, path) ==
    CASE path = "/login" ->
            IF ctx.user # <<>> THEN Navigate(homeOf(ctx.user[1]))
            ELSE Element("LoginForm")
      [] path = "/admin" -> ProtectedRoute(ctx, "admin", "AdminDashboard")
      [] path = "/dashboard" -> ProtectedRoute(ctx, "user", "UserDashboard")
      [] path = "/" ->
            IF ctx.user # <<>> THEN Navigate(homeOf(ctx.user[1]))
            ELSE Navigate("/login")

\* Rendering at a path: a Navigate element replaces the location and the
\* routes render again.
RECURSIVE Render(_, _)
Render(ctx, path) ==
    LET e == AppContent(ctx, path)
    IN IF e.navigate THEN Render(ctx, e.to)
       ELSE [path |-> path, element |-> e.element]

FirstAuthContext == [user |-> <<>>, isLoading |-> TRUE, effect |-> "pending"]

\* The page has been loaded at some path; localStorage holds what an earlier
\* visit left: nothing, or the user of a login.
InitAuth ==
    /\ StoreAtRest
    /\ yoloResults = [detections |-> <<>>]
    /\ analysis = NoAnalysis
    /\ pc = "idle"
    /\ severityCall = NoSeverityCall
    /\ ServerIdle
    /\ ClientIdle
    /\ TimersIdle
    /\ MOCK_USERS = MockUsers
    /\ MOCK_PASSWORDS = MockPasswords
    /\ authContext = FirstAuthContext
    /\ localStorage \in {<<>>, <<MockUsers[1]>>, <<MockUsers[2]>>}
    /\ \E path \in Paths : route = Render(FirstAuthContext, path)
    /\ authCalls = <<>>
    /\ authResult = NoAuthResult

AuthRest ==
    /\ UNCHANGED <<yoloResults, analysis, pc, severityCall>>
    /\ UNCHANGED serverVars
    /\ UNCHANGED clientVars
    /\ UNCHANGED timerVars
    /\ UNCHANGED storeVars

\* The effect of AuthProvider: the saved user, if any, becomes the user.
AuthEffect ==
    /\ authContext.effect = "pending"
    /\ authContext' = [user |-> localStorage, isLoading |-> FALSE, effect |-> "done"]
    /\ route' = Render(authContext', route.path)
    /\ UNCHANGED <<MOCK_USERS, MOCK_PASSWORDS, localStorage, authCalls, authResult>>
    /\ AuthRest

\* The user loads the page at a path: the module is loaded again, pending
\* timers and the state of the form are gone, localStorage stays.
Reload ==
    /\ clicks < MaxAuthEvents
    /\ clicks' = clicks + 1
    /\ authContext.effect = "done"
    /\ MOCK_USERS' = MockUsers
    /\ MOCK_PASSWORDS' = MockPasswords
    /\ authContext' = FirstAuthContext
    /\ \E path \in Paths : route' = Render(FirstAuthContext, path)
    /\ authCalls' = <<>>
    /\ authResult' = NoAuthResult
    /\ UNCHANGED localStorage
    /\ UNCHANGED <<yoloResults, analysis, pc, severityCall>>
    /\ UNCHANGED serverVars
    /\ UNCHANGED <<service, analyzeResult, videoUpload, dashboard, analyzeCalls,
                   healthChecks>>
    /\ UNCHANGED timerVars
    /\ UNCHANGED storeVars

\* handleLogin up to its await: login(credentials) sets isLoading and waits.
HandleLogin ==
    /\ route.element = "LoginForm"
    /\ ~authContext.isLoading
    /\ clicks < MaxAuthEvents
    /\ clicks' = clicks + 1
    /\ \E role \in Roles :
        \E identifier \in IdentifierInputs(role), password \in PasswordInputs :
            authCalls' = Append(authCalls,
                                [op |-> "login", role |-> role,
                                 identifier |-> identifier, password |-> password,
                                 name |-> ""])
    /\ authContext' = [authContext EXCEPT !.isLoading = TRUE]
    /\ route' = Render(authContext', route.path)
    /\ UNCHANGED <<MOCK_USERS, MOCK_PASSWORDS, localStorage, authResult>>
    /\ UNCHANGED <<yoloResults, analysis, pc, severityCall>>
    /\ UNCHANGED serverVars
    /\ UNCHANGED <<service, analyzeResult, videoUpload, dashboard, analyzeCalls,
                   healthChecks>>
    /\ UNCHANGED timerVars
    /\ UNCHANGED storeVars

\* handleRegister up to its await.  Passwords that do not match end the
\* handler with an error of the form; otherwise register(userData) sets
\* isLoading and waits.
HandleRegister ==
    /\ route.element = "LoginForm"
    /\ ~authContext.isLoading
    /\ clicks < MaxAuthEvents
    /\ clicks' = clicks + 1
    /\ \E role \in Roles :
        \E identifier \in IdentifierInputs(role),
           password \in PasswordInputs, confirmPassword \in PasswordInputs :
            IF password # confirmPassword \/ Len(password) < 6
            THEN /\ authResult' =
                      [op |-> "form", success |-> FALSE,
                       error |-> IF password # confirmPassword
                                 THEN "Passwords do not match"
                                 ELSE "Password must be at least 6 characters long",
                       user |-> <<>>, role |-> role, identifier |-> identifier,
                       password |-> password]
                 /\ UNCHANGED <<authCalls, authContext, route>>
            ELSE /\ authCalls' = Append(authCalls,
                                        [op |-> "register", role |-> role,
                                         identifier |-> identifier,
                                         password |-> password, name |-> "New User"])
                 /\ authContext' = [authContext EXCEPT !.isLoading = TRUE]
                 /\ route' = Render(authContext', route.path)
                 /\ UNCHANGED authResult
    /\ UNCHANGED <<MOCK_USERS, MOCK_PASSWORDS, localStorage>>
    /\ UNCHANGED <<yoloResults, analysis, pc, severityCall>>
    /\ UNCHANGED serverVars
    /\ UNCHANGED <<service, analyzeResult, videoUpload, dashboard, analyzeCalls,
                   healthChecks>>
    /\ UNCHANGED timerVars
    /\ UNCHANGED storeVars

\* login after its await.  The timers of the calls have the same delay: they
\* fire in the order of the calls.
LoginSettles ==
    /\ authCalls # <<>>
    /\ Head(authCalls).op = "login"
    /\ LET c == Head(authCalls)
           r == login(MOCK_USERS, MOCK_PASSWORDS, c)
       IN /\ authResult' = [op |-> "login", success |-> r.success, error |-> r.error,
                            user |-> r.user, role |-> c.role,
                            identifier |-> c.identifier, password |-> c.password]
          /\ authContext' = [authContext EXCEPT
                                !.user = IF r.success THEN r.user ELSE @,
                                !.isLoading = FALSE]
          /\ localStorage' = IF r.success THEN r.user ELSE localStorage
    /\ authCalls' = Tail(authCalls)
    /\ route' = Render(authContext', route.path)
    /\ UNCHANGED <<MOCK_USERS, MOCK_PASSWORDS, clicks>>
    /\ UNCHANGED <<yoloResults, analysis, pc, severityCall>>
    /\ UNCHANGED serverVars
    /\ UNCHANGED <<service, analyzeResult, videoUpload, dashboard, analyzeCalls,
                   healthChecks>>
    /\ UNCHANGED timerVars
    /\ UNCHANGED storeVars

\* register after its await.
RegisterSettles ==
    /\ authCalls # <<>>
    /\ Head(authCalls).op = "register"
    /\ LET c == Head(authCalls)
           r == register(MOCK_USERS, MOCK_PASSWORDS, c, now)
       IN /\ authResult' = [op |-> "register", success |-> r.success,
                            error |-> r.error, user |-> r.user, role |-> c.role,
                            identifier |-> c.identifier, password |-> c.password]
          /\ MOCK_USERS' = r.users
          /\ MOCK_PASSWORDS' = r.passwords
    /\ authContext' = [authContext EXCEPT !.isLoading = FALSE]
    /\ authCalls' = Tail(authCalls)
    /\ route' = Render(authContext', route.path)
    /\ UNCHANGED <<localStorage, clicks>>
    /\ UNCHANGED <<yoloResults, analysis, pc, severityCall>>
    /\ UNCHANGED serverVars
    /\ UNCHANGED <<service, analyzeResult, videoUpload, dashboard, analyzeCalls,
                   healthChecks>>
    /\ UNCHANGED timerVars
    /\ UNCHANGED storeVars

\* logout(), from the Logout button of a dashboard.
Logout ==
    /\ route.element \in {"AdminDashboard", "UserDashboard"}
    /\ clicks < MaxAuthEvents
    /\ clicks' = clicks + 1
    /\ authContext' = [authContext EXCEPT !.user = <<>>]
    /\ localStorage' = <<>>
    /\ route' = Render(authContext', route.path)
    /\ UNCHANGED <<MOCK_USERS, MOCK_PASSWORDS, authCalls, authResult>>
    /\ UNCHANGED <<yoloResults, analysis, pc, severityCall>>
    /\ UNCHANGED serverVars
    /\ UNCHANGED <<service, analyzeResult, videoUpload, dashboard, analyzeCalls,
                   healthChecks>>
    /\ UNCHANGED timerVars
    /\ UNCHANGED storeVars

NextAuth ==
    \/ AuthEffect
    \/ Reload
    \/ HandleLogin
    \/ HandleRegister
    \/ LoginSettles
    \/ RegisterSettles
    \/ Logout

SpecAuth == InitAuth /\ [][NextAuth]_vars

(***************************************************************************)
(* The timer of startRealTimeDetections.  setInterval evaluates its delay  *)
(* argument, Math.random() * 30000 + 30000 ("generator") or                *)
(* Math.random() * 20000 + 20000 ("generatorClear"), when it is called,    *)
(* and repeats the callback with that delay.  Times are in milliseconds.   *)
(***************************************************************************)
\* The least, a middle and the greatest value of the delay expression.
GeneratorDelays(v) ==
    IF v = "generator" THEN {30000, 45000, 59999} ELSE {20000, 30000, 39999}

\* Milliseconds between the mount and the load callback.
LoadDelay == 1000

\* setInterval(callback, delay) called at time t: one draw of the delay.
setInterval(delay, t) == [delay |-> delay, due |-> t + delay, draws |-> 1, gaps |-> <<>>]

\* The interval timer fires: the next tick is due one delay later.
intervalFires(timer) ==
    [timer EXCEPT !.due = timer.due + timer.delay,
                  !.gaps = Append(timer.gaps, timer.delay)]

\* A generator revision of the hook, mounted at StartTime - LoadDelay; the
\* load callback has just run.
InitGenerator ==
    /\ variant \in {"generator", "generatorClear"}
    /\ incidents = MOCK_INCIDENTS(variant)
    /\ isLoading = FALSE
    /\ realTimeDetections = TRUE
    /\ loadTimer = "fired"
    /\ interval = "active"
    /\ mounted = TRUE
    /\ now = StartTime
    /\ insertCalls = 0
    /\ updateCalls = 0
    /\ ticks = 0
    /\ lastOp = [op |-> "load", id |-> "", key |-> 0]
    /\ yoloResults = [detections |-> <<>>]
    /\ analysis = [detections |-> <<>>, incidents |-> <<>>, processedFrames |-> 0,
                   totalFrames |-> 0, status |-> "none"]
    /\ pc = "idle"
    /\ severityCall = NoSeverityCall
    /\ ServerIdle
    /\ ClientIdle
    /\ AuthIdle
    /\ liveVideoFeed = NoFeed
    /\ \E delay \in GeneratorDelays(variant) :
          generatorTimer = setInterval(delay, StartTime - LoadDelay)

\* The interval timer of the generator fires at its due time and runs its
\* callback, the tick of the generator.
GeneratorTimerFires ==
    /\ interval = "active"
    /\ Calls < MaxCalls
    /\ now' = generatorTimer.due
    /\ generatorTimer' = intervalFires(generatorTimer)
    /\ \/ /\ lastOp' = [op |-> "tick", id |-> "", key |-> 0]
          /\ ticks' = ticks + 1
          /\ UNCHANGED <<incidents, insertCalls>>
       \/ /\ \E g \in GeneratorDraws :
                LET key == SeedLen(variant) + insertCalls + 1
                    new == newIncident(
                              generateRandomDetection(variant, g.t, g.c, g.bc),
                              now', now', key)
                IN /\ incidents' = setIncidents(addIncident(incidents, new))
                   /\ lastOp' = [op |-> "generate", id |-> new.id, key |-> key]
          /\ insertCalls' = IF mounted THEN insertCalls + 1 ELSE insertCalls
          /\ ticks' = IF mounted THEN ticks ELSE ticks + 1
    /\ UNCHANGED <<variant, isLoading, realTimeDetections, loadTimer, interval,
                   mounted, updateCalls>>
    /\ UNCHANGED <<yoloResults, analysis, pc, severityCall, liveVideoFeed>>
    /\ UNCHANGED serverVars
    /\ UNCHANGED clientVars
    /\ UNCHANGED authVars

NextGenerator ==
    \/ GeneratorTimerFires
    \/ Unmount

SpecGenerator == InitGenerator /\ [][NextGenerator]_vars

(***************************************************************************)
(* One LiveVideoFeed of LiveDetectionFeed.  Its effect runs while isActive *)
(* (the hook's realTimeDetections, which the hook's effect sets and        *)
(* nothing clears while the dashboard is mounted): an interval of 5-15 s   *)
(* that calls simulateYOLODetection, which with the chance 0.3 starts an   *)
(* analysis: a timeout of 1-3 s whose callback reports the detection and   *)
(* starts a timeout of 10 s that clears the boxes.  The cleanup of the     *)
(* effect clears the interval only.                                        *)
(***************************************************************************)
\* Ticks of the analysis interval per run.
MaxFeedTicks == 4

\* The feed after its first render, before the hook's effect has run.
FeedRendered == [NoFeed EXCEPT !.mounted = TRUE]

\* return () => clearInterval(analysisInterval)
feedCleanup(f) == [f EXCEPT !.interval = "none"]

InitFeed ==
    /\ StoreAtRest
    /\ yoloResults = [detections |-> <<>>]
    /\ analysis = [detections |-> <<>>, incidents |-> <<>>, processedFrames |-> 0,
                   totalFrames |-> 0, status |-> "none"]
    /\ pc = "idle"
    /\ severityCall = NoSeverityCall
    /\ ServerIdle
    /\ ClientIdle
    /\ AuthIdle
    /\ generatorTimer = NoTimer
    /\ liveVideoFeed = FeedRendered

FeedRest ==
    /\ UNCHANGED generatorTimer
    /\ UNCHANGED <<yoloResults, analysis, pc, severityCall>>
    /\ UNCHANGED serverVars
    /\ UNCHANGED <<service, analyzeResult, videoUpload, dashboard, analyzeCalls,
                   healthChecks>>
    /\ UNCHANGED authVars
    /\ UNCHANGED storeVars

\* isActive becomes true: the effect runs and sets the interval.
FeedActivate ==
    /\ liveVideoFeed.mounted
    /\ ~liveVideoFeed.isActive
    /\ liveVideoFeed' = [liveVideoFeed EXCEPT !.isActive = TRUE, !.interval = "active"]
    /\ UNCHANGED clicks
    /\ FeedRest

\* The interval fires: simulateYOLODetection.  An analysis lasts at most
\* 3 s and the interval is at least 5 s: the analysis of the tick before has
\* ended.
FeedIntervalTick ==
    /\ liveVideoFeed.interval = "active"
    /\ liveVideoFeed.analyses = 0
    /\ clicks < MaxFeedTicks
    /\ clicks' = clicks + 1
    /\ \/ UNCHANGED liveVideoFeed
       \/ liveVideoFeed' = [liveVideoFeed EXCEPT !.isAnalyzing = TRUE,
                                                 !.analyses = @ + 1]
    /\ FeedRest

\* The analysis timeout fires: the boxes are set, the detection is reported
\* through onDetection, and the timeout that clears the boxes starts.  The
\* state updates of an unmounted feed are dropped.
FeedAnalysisEnds ==
    /\ liveVideoFeed.analyses > 0
    /\ liveVideoFeed' =
          IF liveVideoFeed.mounted
          THEN [liveVideoFeed EXCEPT !.analyses = @ - 1,
                                     !.detections = 1,
                                     !.detectionCount = @ + 1,
                                     !.reports = @ + 1,
                                     !.isAnalyzing = FALSE,
                                     !.clearTimers = @ + 1]
          ELSE [liveVideoFeed EXCEPT !.analyses = @ - 1,
                                     !.reports = @ + 1,
                                     !.clearTimers = @ + 1]
    /\ UNCHANGED clicks
    /\ FeedRest

\* setTimeout(() => setDetections([]), 10000) fires.
FeedClearTimerFires ==
    /\ liveVideoFeed.clearTimers > 0
    /\ liveVideoFeed' =
          IF liveVideoFeed.mounted
          THEN [liveVideoFeed EXCEPT !.clearTimers = @ - 1, !.detections = 0]
          ELSE [liveVideoFeed EXCEPT !.clearTimers = @ - 1]
    /\ UNCHANGED clicks
    /\ FeedRest

\* The feed unmounts (the dashboard leaves the live tab): the cleanup runs.
FeedUnmount ==
    /\ liveVideoFeed.mounted
    /\ liveVideoFeed' = [feedCleanup(liveVideoFeed) EXCEPT !.mounted = FALSE]
    /\ UNCHANGED clicks
    /\ FeedRest

NextFeed ==
    \/ FeedActivate
    \/ FeedIntervalTick
    \/ FeedAnalysisEnds
    \/ FeedClearTimerFires
    \/ FeedUnmount

SpecFeed == InitFeed /\ [][NextFeed]_vars

(***************************************************************************)
(* Properties of the incident store.                                       *)
(***************************************************************************)
IdsOf(list) == {r.id : r \in Range(list)}

\* C1: once the seed list is loaded, the list length is the seed length plus
\* the number of addIncident calls made, and after each insert the record
\* just inserted is at index 0.
C1_LengthCountsInserts ==
    /\ (mounted /\ ~isLoading) =>
            Len(incidents) = SeedLen(variant) + insertCalls
    /\ (mounted /\ lastOp.op \in {"add", "generate"}) =>
            /\ incidents # <<>>
            /\ Head(incidents).key = lastOp.key

\* C2: updateIncidentStatus(id, s) with an id of the store changes the status
\* of exactly one record and nothing else: there is one position whose status
\* is replaced, and the list is otherwise the same.
C2_UpdateChangesOneRecord ==
    [][(updateCalls' = updateCalls + 1 /\ lastOp'.id \in IdsOf(incidents)) =>
            \E i \in DOMAIN incidents :
                /\ incidents[i].id = lastOp'.id
                /\ \E s \in Statuses :
                      incidents' = [incidents EXCEPT ![i].status = s]]_vars

\* C3: updateIncidentStatus(id, s) with an id no record carries leaves the
\* store (records, fields, order, loading flag) as it was.
C3_AbsentIdIsNoOp ==
    [][(updateCalls' = updateCalls + 1 /\ lastOp'.id \notin IdsOf(incidents)) =>
            UNCHANGED <<incidents, isLoading>>]_vars

C3_Witness ==
    /\ lastOp.op = "update"
    /\ lastOp.id = AbsentId
    /\ Len(incidents) > SeedLen(variant)

\* C4: no two records of the store have the same id.
C4_UniqueIds ==
    \A i, j \in DOMAIN incidents : i # j => incidents[i].id # incidents[j].id

\* C5: the active view holds exactly the records whose status is active, in
\* the order they have in the store: its j-th element is the record at the
\* j-th smallest position of an active record.
ActivePositions == {i \in DOMAIN incidents : incidents[i].status = "active"}

C5_ActiveView ==
    /\ Len(activeIncidents) = Cardinality(ActivePositions)
    /\ \A j \in DOMAIN activeIncidents :
          activeIncidents[j] =
              incidents[CHOOSE i \in ActivePositions :
                            Cardinality({k \in ActivePositions : k < i}) = j - 1]

C5_Witness ==
    /\ insertCalls >= 1
    /\ updateCalls >= 1
    /\ Len(activeIncidents) >= 2
    /\ Len(activeIncidents) < Len(incidents)
    /\ \E i \in DOMAIN incidents :
          /\ incidents[i].status # "active"
          /\ \E h, k \in ActivePositions : h < i /\ i < k

\* C6: a record is never removed: every id of the list is an id of the list
\* in the next state.
C6_NeverRemoved ==
    [][IdsOf(incidents) \subseteq IdsOf(incidents')]_vars

\* C7: the timestamp of a record never changes.
C7_TimestampImmutable ==
    [][\A r \in Range(incidents), q \in Range(incidents') :
            r.key = q.key => r.timestamp = q.timestamp]_vars

\* C8: no record in front of a generated record has an earlier timestamp than
\* the generated record.
C8_GeneratedNewestFirst ==
    \A i, j \in DOMAIN incidents :
        (i < j /\ incidents[j].origin = "generator") =>
            incidents[i].timestamp >= incidents[j].timestamp

C8_Witness ==
    \E i, j \in DOMAIN incidents :
        /\ i < j
        /\ incidents[i].origin = "generator"
        /\ incidents[j].origin = "generator"
        /\ incidents[i].timestamp > incidents[j].timestamp

(***************************************************************************)
(* Properties of processYOLOResults.                                       *)
(***************************************************************************)
InUnitInterval(c) == 0 <= c /\ c <= 100

ConfidencesInRange(r) ==
    /\ \A i \in DOMAIN r.confidence : InUnitInterval(r.confidence[i])
    /\ \A b \in DOMAIN r.detectionBoxes : InUnitInterval(r.detectionBoxes[b].confidence)

\* C9: the confidence of every record of the store and of every incident of
\* an analysis, and of each of their detection boxes, lies in [0,1].
C9_ConfidenceInRange ==
    /\ \A r \in Range(incidents) : ConfidencesInRange(r)
    /\ \A r \in Range(analysis.incidents) : ConfidencesInRange(r)

\* The id processYOLOResults gives the incident of the detection at position p.
YoloIdAt(p) == "yolo-" \o ToString(now) \o "-" \o ToString(p - 1)

KeyedPositions(D) == {p \in DOMAIN D : toLowerCase(D[p].class) \in DOMAIN classMap}

\* C11: a detection whose class is absent from the table yields no incident
\* and no error: the analysis is completed, it lists every detection of the
\* response, no incident carries the id of such a detection, and there are
\* exactly as many incidents as detections with a class of the table.
C11_UnmappedDropped ==
    pc = "done" =>
        LET D == yoloResults.detections
            I == analysis.incidents
        IN /\ analysis.status = "completed"
           /\ analysis.detections = D
           /\ \A p \in DOMAIN D \ KeyedPositions(D) :
                 \A j \in DOMAIN I : I[j].id # YoloIdAt(p)
           /\ Len(I) = Cardinality(KeyedPositions(D))

\* C12: calculateSeverity gives critical for a name with accident or flood
\* and a confidence above 0.8, high for such a name otherwise; for a name
\* without these but with traffic or congestion it gives medium above 0.7 and
\* low otherwise; for every other name it gives medium.
C12_SeverityTable ==
    severityCall.result # "none" =>
        LET c == severityCall.confidence
            n == severityCall.className
            accidentOrFlood == includes(n, "accident") \/ includes(n, "flood")
            trafficOrCongestion == includes(n, "traffic") \/ includes(n, "congestion")
        IN /\ (accidentOrFlood /\ c > 80) => severityCall.result = "critical"
           /\ (accidentOrFlood /\ c <= 80) => severityCall.result = "high"
           /\ (~accidentOrFlood /\ trafficOrCongestion /\ c > 70) =>
                 severityCall.result = "medium"
           /\ (~accidentOrFlood /\ trafficOrCongestion /\ c <= 70) =>
                 severityCall.result = "low"
           /\ (~accidentOrFlood /\ ~trafficOrCongestion) =>
                 severityCall.result = "medium"

\* Both kinds of word occur in the name and the accident rule decided.
C12_Witness ==
    /\ severityCall.className = "traffic_accident"
    /\ severityCall.confidence = 80
    /\ severityCall.result = "high"

(***************************************************************************)
(* Properties of the hook's timers.                                        *)
(***************************************************************************)
\* C14: once the component using the hook has unmounted and the cleanup of
\* its effect has run, no tick of the generator interval fires and no
\* generated record enters the store.
C14_GeneratorCancelled ==
    [][(HasGenerator(variant) /\ ~mounted) =>
            /\ lastOp'.op \notin {"tick", "generate"}
            /\ ticks' = ticks
            /\ incidents' = incidents]_vars
\* C15: the store starts loading with an empty list; the load timer, when it
\* fires on the mounted component, makes it ready with exactly the seed list;
\* a ready store never returns to loading; and a store whose component stays
\* mounted does become ready.
C15_LoadingToReady ==
    /\ isLoading = TRUE
    /\ incidents = <<>>
    /\ [][(mounted /\ loadTimer = "pending" /\ loadTimer' = "fired") =>
              /\ ~isLoading'
              /\ incidents' = MOCK_INCIDENTS(variant)]_vars
    /\ [][~isLoading => ~isLoading']_vars
    /\ <>(~isLoading \/ ~mounted)

\* The timer has fired on a store that calls had reached while it was loading.
C15_Witness ==
    /\ lastOp.op = "load"
    /\ mounted
    /\ ~isLoading
    /\ insertCalls >= 1
    /\ incidents = MOCK_INCIDENTS(variant)

(***************************************************************************)
(* Properties of the analysis servers.                                     *)
(***************************************************************************)
\* The request carries a video file and a location text that is not JSON.
MalformedLocation ==
    /\ startsWithVideo(req.file)
    /\ req.location # <<>>
    /\ JSONparse(req.location[1]).threw

\* The locations an answer gives: that of the analysis, or those of its
\* incidents.
LocationsOf(body) ==
    IF "incidents" \in DOMAIN body
    THEN {[lat |-> i.location.lat, lng |-> i.location.lng, area |-> i.location.area] :
             i \in Range(body.incidents)}
    ELSE IF "location" \in DOMAIN body THEN {body.location}
    ELSE {}

FallbackLocations ==
    {[lat |-> l.lat, lng |-> l.lng, area |-> <<l.area>>] : l \in Range(serverLocations)}

\* C18: a request whose location field is not valid JSON is answered with
\* status 200 and an analysis whose locations are fallback locations of the
\* server.
C18_MalformedLocationFallsBack ==
    (res # NoResponse /\ MalformedLocation) =>
        /\ res.status = 200
        /\ LocationsOf(res.body) # {}
        /\ LocationsOf(res.body) \subseteq FallbackLocations

C17_FallbackNeverRejects ==
    (service = "fallback" /\ analyzeResult.outcome # "none") =>
        /\ ~analyzeResult.rejected
        /\ analyzeResult.outcome # "ok" =>
              /\ analysis.status = "completed"
              /\ Len(analysis.detections) \in 1..3
              /\ \A d \in Range(analysis.detections) : d.class \in DOMAIN classMap
              /\ Len(analysis.incidents) = Len(analysis.detections)

C17_Witness ==
    /\ service = "fallback"
    /\ analyzeResult.outcome = "rejected"
    /\ Len(analysis.detections) = 3
    /\ Len(analysis.incidents) = 3
    /\ analysis.incidents[3].type = "road_closure"
\* C13: when an upload's analysis with k incidents is handed to
\* onAnalysisComplete, the store gets k more records, and its first k records
\* are the incidents of the analysis.
C13_UploadReachesStore ==
    [][Len(dashboard'.cctvFeeds) > Len(dashboard.cctvFeeds) =>
          LET k == Len(analysis'.incidents)
          IN /\ Len(incidents') = Len(incidents) + k
             /\ \A j \in 1..k :
                   \E a \in Range(analysis'.incidents) :
                      /\ incidents'[j].type = a.type
                      /\ incidents'[j].severity = a.severity
                      /\ incidents'[j].confidence = a.confidence]_vars

\* C16: in the strict revision, when the fetch rejects or the response is not
\* ok, analyzeVideo rejects and returns no analysis; onAnalysisComplete is not
\* called, and the component that made the call, if still mounted, holds the
\* error message, no analysis result, and isUploading false.
C16_StrictFailureSurfaces ==
    [][(service = "strict" /\ Len(analyzeCalls') < Len(analyzeCalls)
            /\ analyzeResult'.outcome # "ok") =>
          /\ analyzeResult'.rejected
          /\ analysis' = analysis
          /\ dashboard' = dashboard
          /\ (videoUpload.mounted /\ videoUpload.instance = analyzeResult'.instance) =>
                /\ videoUpload'.mounted
                /\ videoUpload'.error = <<analyzeResult'.message>>
                /\ videoUpload'.error # <<"">>
                /\ videoUpload'.analysisResult = <<>>
                /\ ~videoUpload'.isUploading]_vars

\* A strict upload has failed on a response that was not ok, and its
\* component shows the error.
C16_Witness ==
    /\ service = "strict"
    /\ analyzeResult.outcome = "response"
    /\ analyzeResult.rejected
    /\ videoUpload.mounted
    /\ videoUpload.instance = analyzeResult.instance
    /\ videoUpload.error = <<analyzeResult.message>>
    /\ ~videoUpload.isUploading
    /\ analyzeCalls = <<>>

\* C20: an analyze request starts only from a mounted VideoUpload whose last
\* health check said online, with a file selected, a camera name set and no
\* upload in progress; no two requests of one VideoUpload are in flight.
C20_UploadGated ==
    /\ [][Len(analyzeCalls') > Len(analyzeCalls) =>
            /\ videoUpload.mounted
            /\ videoUpload.serverStatus = "online"
            /\ videoUpload.selectedFile # <<>>
            /\ videoUpload.cctvName # ""
            /\ ~videoUpload.isUploading
            /\ \A c \in Range(analyzeCalls) : c.instance # videoUpload.instance]_vars
    /\ [](\A i, j \in DOMAIN analyzeCalls :
             i # j => analyzeCalls[i].instance # analyzeCalls[j].instance)

\* Two VideoUpload instances each have a request in flight: the first was
\* unmounted by a change of tab, the second is uploading.
C20_Witness ==
    /\ Len(analyzeCalls) = 2
    /\ analyzeCalls[1].instance = 1
    /\ analyzeCalls[2].instance = 2
    /\ videoUpload.mounted
    /\ videoUpload.instance = 2
    /\ videoUpload.isUploading

\* C27: every incident of type accident or flooding that processYOLOResults
\* produces has severity high or critical.
C27_AccidentFloodSevere ==
    pc = "done" =>
        \A j \in DOMAIN analysis.incidents :
            analysis.incidents[j].type \in {"accident", "flooding"} =>
                analysis.incidents[j].severity \in {"high", "critical"}

\* C28: every detection of a successful answer of yolo-server has a class of
\* the client's table, so the analysis has one incident per detection and at
\* least one incident.
C28_ServerClassesMapped ==
    (analyzeResult.outcome = "ok" /\ "detections" \in DOMAIN yoloResults) =>
        /\ \A p \in DOMAIN yoloResults.detections :
              toLowerCase(yoloResults.detections[p].class) \in DOMAIN classMap
        /\ Len(analysis.incidents) = Len(yoloResults.detections)
        /\ Len(analysis.incidents) >= 1

\* C25: the status of every record is active, monitoring or resolved; for
\* every record of the store and every status s2, whatever the record's
\* status s1 (s2 itself and resolved included), updateIncidentStatus gives
\* the record the status s2; and a call made through the hook leaves every
\* record with the id it names in the one status it was given.
C25_StatusUnconstrained ==
    /\ [](\A i \in DOMAIN incidents : incidents[i].status \in Statuses)
    /\ [](\A id \in IdsOf(incidents), s2 \in Statuses :
            \A i \in DOMAIN incidents :
                incidents[i].id = id =>
                    updateIncidentStatus(incidents, id, s2)[i].status = s2)
    /\ [][updateCalls' = updateCalls + 1 =>
            \E s2 \in Statuses :
                /\ Len(incidents') = Len(incidents)
                /\ \A i \in DOMAIN incidents :
                      incidents[i].id = lastOp'.id => incidents'[i].status = s2]_vars

\* Two updates have been made and the record the second one named is
\* resolved: it was moved there from another status, or it was resolved and
\* the update named resolved again.
C25_Witness ==
    /\ lastOp.op = "update"
    /\ updateCalls = 2
    /\ \E i \in DOMAIN incidents :
          /\ incidents[i].id = lastOp.id
          /\ incidents[i].status = "resolved"
          /\ incidents[i].origin = "seed"

(***************************************************************************)
(* Properties of the login, the registration and the routes.               *)
(***************************************************************************)
\* A login call ends in this step.
LoginEnds ==
    /\ authCalls # <<>>
    /\ Head(authCalls).op = "login"
    /\ authCalls' = Tail(authCalls)
    /\ authContext'.effect = "done"

\* A register call ends in this step.
RegisterEnds ==
    /\ authCalls # <<>>
    /\ Head(authCalls).op = "register"
    /\ authCalls' = Tail(authCalls)
    /\ authContext'.effect = "done"

\* The identifier a user of the table holds.
identifierOf(u) == IF u.role = "admin" THEN u.rollNumber ELSE u.email

\* C21: a dashboard is rendered only when authentication is not loading and
\* the user has the role of its route; once loading is over, without a user
\* the login form is shown at /login, and a user is at the dashboard of their
\* own role, whatever path the page was loaded at.
C21_RoleBasedAccess ==
    /\ route.element = "AdminDashboard" =>
          /\ ~authContext.isLoading
          /\ authContext.user # <<>>
          /\ authContext.user[1].role = "admin"
          /\ route.path = "/admin"
    /\ route.element = "UserDashboard" =>
          /\ ~authContext.isLoading
          /\ authContext.user # <<>>
          /\ authContext.user[1].role = "user"
          /\ route.path = "/dashboard"
    /\ (~authContext.isLoading /\ authContext.user = <<>>) =>
          route = [path |-> "/login", element |-> "LoginForm"]
    /\ (~authContext.isLoading /\ authContext.user # <<>>) =>
          /\ route.path = homeOf(authContext.user[1])
          /\ route.element \in {"AdminDashboard", "UserDashboard"}

\* A user of role 'user' has logged in and sees the user dashboard.
C21_Witness ==
    /\ authResult.op = "login"
    /\ authResult.success
    /\ authResult.role = "user"
    /\ authContext.user # <<>>
    /\ authContext.user[1].role = "user"
    /\ route = [path |-> "/dashboard", element |-> "UserDashboard"]

C26_RegisterThenLogin ==
    /\ [][RegisterEnds =>
            LET c == Head(authCalls)
                held == \E i \in DOMAIN MOCK_USERS :
                            identifierOf(MOCK_USERS[i]) = <<c.identifier>>
            IN /\ held => /\ ~authResult'.success
                          /\ MOCK_USERS' = MOCK_USERS
                          /\ MOCK_PASSWORDS' = MOCK_PASSWORDS
               /\ authResult'.success =>
                     /\ Len(MOCK_USERS') = Len(MOCK_USERS) + 1
                     /\ SubSeq(MOCK_USERS', 1, Len(MOCK_USERS)) = MOCK_USERS
                     /\ \A k \in DOMAIN MOCK_PASSWORDS :
                           /\ k \in DOMAIN MOCK_PASSWORDS'
                           /\ MOCK_PASSWORDS'[k] = MOCK_PASSWORDS[k]]_vars
    /\ [][(/\ LoginEnds
           /\ authResult.op = "register"
           /\ authResult.success
           /\ Head(authCalls).role = authResult.role
           /\ Head(authCalls).identifier = authResult.identifier
           /\ Head(authCalls).password = authResult.password
           /\ authResult.identifier # "")
            => authResult'.success]_vars
    /\ [](\A i, j \in DOMAIN MOCK_USERS :
            i # j => identifierOf(MOCK_USERS[i]) # identifierOf(MOCK_USERS[j]))

C24_PeriodDrawnPerTick ==
    [][Len(generatorTimer'.gaps) = Len(generatorTimer.gaps) + 1 =>
          generatorTimer'.draws = generatorTimer.draws + 1]_vars

\* C29: onDetection is called only by a feed that is mounted and active.
C29_NoReportAfterStop ==
    [][liveVideoFeed'.reports > liveVideoFeed.reports =>
          liveVideoFeed.mounted /\ liveVideoFeed.isActive]_vars

(***************************************************************************)
(* Properties of one upload run of VideoUpload.                            *)
(***************************************************************************)
\* The analyze call of the mounted instance of VideoUpload is pending.
UploadPending ==
    \E i \in DOMAIN analyzeCalls : analyzeCalls[i].instance = videoUpload.instance

\* C30: a run starts with uploadProgress 0 and isUploading true; while the
\* run goes on, the progress does not decrease and is at most 90; progress
\* 100 is set only by a call that succeeded; isUploading is true exactly
\* while the analyze call of the instance is pending (for ever, if the call
\* never settles), and false once it has settled.
C30_UploadRun ==
    /\ [](videoUpload.mounted => (videoUpload.isUploading <=> UploadPending))
    /\ [](videoUpload.isUploading => videoUpload.uploadProgress <= 90)
    /\ [](analyzeResult.progress = <<100>> =>
              analyzeResult.outcome # "none" /\ ~analyzeResult.rejected)
    /\ [][Len(analyzeCalls') > Len(analyzeCalls) =>
              /\ videoUpload'.uploadProgress = 0
              /\ videoUpload'.isUploading
              /\ ~videoUpload.isUploading]_vars
    /\ [][(videoUpload.isUploading /\ videoUpload'.isUploading
              /\ videoUpload'.instance = videoUpload.instance) =>
              videoUpload'.uploadProgress >= videoUpload.uploadProgress]_vars
    /\ [][(UploadPending /\ ~UploadPending') => ~videoUpload'.isUploading]_vars

\* A run has reached 90 with its call pending, and has ticked again.
C30_Witness ==
    /\ videoUpload.mounted
    /\ videoUpload.isUploading
    /\ UploadPending
    /\ videoUpload.uploadProgress = 90
    /\ videoUpload.progressIntervals = 0

====
